---- MODULE Spec2Model ----
(***************************************************************************)
(* Model of the chunked SQLite filesystem (packages/sqlite-fs) and of the  *)
(* git receive-pack engine of the servable repository Durable Object.      *)
(*                                                                         *)
(* Text and bytes are sequences of one-character strings; the byte 0 is    *)
(* written NUL.  Only ASCII occurs, on which TextEncoder/TextDecoder are   *)
(* the identity.                                                           *)
(***************************************************************************)
EXTENDS Integers, Sequences, FiniteSets, TLC

VARIABLES
    rows,       \* file_chunks table: a set of ChunkRow records
    adapter,    \* which SyncSqliteDatabase implementation backs the filesystem
    fsCall,     \* the filesystem call that just completed, or NoCall
    refs,       \* ref store of the plumbing library: ref name -> oid or Absent
    headFile,   \* content of .git/HEAD: Absent or the symbolic target
    gitDir,     \* TRUE once .git exists
    push,       \* the receive-pack request that just completed, or NoPush
    pkt,        \* the pkt-line codec call that just completed, or NoPkt
    repo        \* the repository object: status, memoized answers, running calls

vars == <<rows, adapter, fsCall, refs, headFile, gitDir, push, pkt, repo>>

fsVars == <<rows, adapter, fsCall>>
rpVars == <<refs, headFile, gitDir, push, repo>>

(***************************************************************************)
(* Generic helpers on sequences.                                           *)
(***************************************************************************)
Min(a, b) == IF a <= b THEN a ELSE b

\* JS slice(start, end) / subarray(start, end) with 0-based, end-exclusive indices
Slice(s, start, end) ==
    LET lo == Min(start, Len(s))
        hi == Min(end, Len(s))
    IN  IF hi <= lo THEN <<>> ELSE SubSeq(s, lo + 1, hi)

StartsWith(s, prefix) ==
    /\ Len(s) >= Len(prefix)
    /\ SubSeq(s, 1, Len(prefix)) = prefix

EndsWith(s, suffix) ==
    /\ Len(s) >= Len(suffix)
    /\ SubSeq(s, Len(s) - Len(suffix) + 1, Len(s)) = suffix

RECURSIVE Flatten(_)
Flatten(ss) == IF ss = <<>> THEN <<>> ELSE Head(ss) \o Flatten(Tail(ss))

\* the first position from i on whose element is in set, 0 when there is none
RECURSIVE IndexFrom(_, _, _)
IndexFrom(s, set, i) ==
    IF i > Len(s) THEN 0
    ELSE IF s[i] \in set THEN i
    ELSE IndexFrom(s, set, i + 1)

\* s.split(sep) for a one-character separator
RECURSIVE SplitOn(_, _)
SplitOn(s, sep) ==
    LET k == IndexFrom(s, {sep}, 1)
    IN  IF k = 0 THEN <<s>>
        ELSE <<SubSeq(s, 1, k - 1)>> \o SplitOn(SubSeq(s, k + 1, Len(s)), sep)

RECURSIVE JoinWith(_, _)
JoinWith(parts, sep) ==
    IF parts = <<>> THEN <<>>
    ELSE IF Len(parts) = 1 THEN parts[1]
    ELSE parts[1] \o <<sep>> \o JoinWith(Tail(parts), sep)

(***************************************************************************)
(* node:path (POSIX flavour), re-exported by path-utils.ts.                *)
(***************************************************************************)
Sep == "/"
Dot == <<".">>
DotDot == <<".", ".">>

\* normalizeString: drops "" and "." segments, resolves ".." against the
\* segments kept so far (keeping a leading ".." of a relative path)
RECURSIVE NormalizeSegments(_, _, _)
NormalizeSegments(segs, acc, allowAboveRoot) ==
    IF segs = <<>> THEN acc
    ELSE LET seg == Head(segs)
             rest == Tail(segs)
         IN  IF seg = <<>> \/ seg = Dot
             THEN NormalizeSegments(rest, acc, allowAboveRoot)
             ELSE IF seg = DotDot
             THEN IF acc # <<>> /\ acc[Len(acc)] # DotDot
                  THEN NormalizeSegments(rest, SubSeq(acc, 1, Len(acc) - 1), allowAboveRoot)
                  ELSE IF allowAboveRoot
                  THEN NormalizeSegments(rest, Append(acc, seg), allowAboveRoot)
                  ELSE NormalizeSegments(rest, acc, allowAboveRoot)
             ELSE NormalizeSegments(rest, Append(acc, seg), allowAboveRoot)

normalize(path) ==
    IF Len(path) = 0 THEN Dot
    ELSE LET isAbsolute == path[1] = Sep
             trailingSeparator == path[Len(path)] = Sep
             body == JoinWith(NormalizeSegments(SplitOn(path, Sep), <<>>, ~isAbsolute), Sep)
         IN  IF Len(body) = 0
             THEN IF isAbsolute THEN <<Sep>>
                  ELSE IF trailingSeparator THEN <<".", Sep>> ELSE Dot
             ELSE LET withSep == IF trailingSeparator THEN Append(body, Sep) ELSE body
                  IN  IF isAbsolute THEN <<Sep>> \o withSep ELSE withSep

dirname(path) ==
    IF Len(path) = 0 THEN Dot
    ELSE LET hasRoot == path[1] = Sep
             \* positions (from the second character on) of a separator that
             \* has a non-separator somewhere to its right
             cuts == {k \in 2..Len(path) :
                        /\ path[k] = Sep
                        /\ \E j \in (k + 1)..Len(path) : path[j] # Sep}
         IN  IF cuts = {} THEN (IF hasRoot THEN <<Sep>> ELSE Dot)
             ELSE LET end == CHOOSE k \in cuts : \A j \in cuts : j <= k
                  IN  IF hasRoot /\ end = 2 THEN <<Sep, Sep>>
                      ELSE SubSeq(path, 1, end - 1)

basename(path) ==
    LET solid == {k \in 1..Len(path) : path[k] # Sep}
    IN  IF solid = {} THEN <<>>
        ELSE LET end == CHOOSE k \in solid : \A j \in solid : j <= k
                 seps == {k \in 1..end : path[k] = Sep}
                 start == IF seps = {} THEN 1
                          ELSE 1 + (CHOOSE k \in seps : \A j \in seps : j <= k)
             IN  SubSeq(path, start, end)

(***************************************************************************)
(* SQLite's LIKE as the statements of sqlite-fs-adapter.ts use it: no      *)
(* ESCAPE clause, so '%' and '_' inside the bound parameter are wildcards, *)
(* and the comparison ignores the case of ASCII letters (SQLite's default, *)
(* no PRAGMA case_sensitive_like is issued).                               *)
(***************************************************************************)
UpperCase == <<"A","B","C","D","E","F","G","H","I","J","K","L","M",
               "N","O","P","Q","R","S","T","U","V","W","X","Y","Z">>
LowerCase == <<"a","b","c","d","e","f","g","h","i","j","k","l","m",
               "n","o","p","q","r","s","t","u","v","w","x","y","z">>

FoldCase(c) ==
    IF \E i \in 1..Len(UpperCase) : UpperCase[i] = c
    THEN LowerCase[CHOOSE i \in 1..Len(UpperCase) : UpperCase[i] = c]
    ELSE c

RECURSIVE Like(_, _)
Like(str, pattern) ==
    IF pattern = <<>> THEN str = <<>>
    ELSE IF Head(pattern) = "%"
    THEN \/ Like(str, Tail(pattern))
         \/ str # <<>> /\ Like(Tail(str), pattern)
    ELSE IF Head(pattern) = "_"
    THEN str # <<>> /\ Like(Tail(str), Tail(pattern))
    ELSE /\ str # <<>>
         /\ FoldCase(Head(str)) = FoldCase(Head(pattern))
         /\ Like(Tail(str), Tail(pattern))

(***************************************************************************)
(* schema.ts, interfaces.ts and the store adapters.                        *)
(***************************************************************************)
\* Scale of the model: 1024 in the program.  CHUNK_SIZE = 1.8 * 1024 * 1024
\* is the non-integer 1887436.8; with KiB = 1 the threshold is 1.8 bytes and
\* keeps the same fractional part.
KiB == 1
\* CHUNK_SIZE as the exact fraction CHUNK_SIZE_NUM / CHUNK_SIZE_DEN
CHUNK_SIZE_DEN == 10
CHUNK_SIZE_NUM == 18 * KiB * KiB

\* Math.trunc(k * CHUNK_SIZE): what subarray() makes of a fractional offset
TruncChunks(k) == (k * CHUNK_SIZE_NUM) \div CHUNK_SIZE_DEN
\* Math.ceil(n / CHUNK_SIZE)
CeilDivChunk(n) == (n * CHUNK_SIZE_DEN + CHUNK_SIZE_NUM - 1) \div CHUNK_SIZE_NUM
\* n <= CHUNK_SIZE
FitsOneChunk(n) == n * CHUNK_SIZE_DEN <= CHUNK_SIZE_NUM

\* The two families of adapter: one() of the Durable Object adapter of
\* sqlite-fs throws NoRowsError; BunSqliteAdapter.one() throws a plain Error.
Adapters == {"do", "bun"}

NoRowsErrorName(a) == IF a = "do" THEN "NoRowsError" ELSE "Error"
TooManyRowsErrorName(a) == IF a = "do" THEN "TooManyRowsError" ELSE "Error"

\* SyncSqliteDatabase.one over the rows a SELECT matched
DbOne(a, selected) ==
    IF selected = {}
    THEN [thrown |-> TRUE, name |-> NoRowsErrorName(a), row |-> <<>>]
    ELSE IF Cardinality(selected) > 1
    THEN [thrown |-> TRUE, name |-> TooManyRowsErrorName(a), row |-> <<>>]
    ELSE [thrown |-> FALSE, name |-> "", row |-> <<CHOOSE r \in selected : TRUE>>]

isNotFoundError(error) == error.name = "NoRowsError"

\* "SELECT ... WHERE path = ? AND chunk_index = 0"
SelectMeta(db, dbPath) == {r \in db : r.path = dbPath /\ r.chunk_index = 0}

\* "SELECT content ... WHERE path = ? ORDER BY chunk_index ASC"
RECURSIVE OrderByChunkIndex(_)
OrderByChunkIndex(sel) ==
    IF sel = {} THEN <<>>
    ELSE LET first == CHOOSE r \in sel : \A q \in sel : r.chunk_index <= q.chunk_index
         IN  <<first>> \o OrderByChunkIndex(sel \ {first})

\* A BLOB column: NULL is <<>>, a value b is <<b>>
Null == <<>>
Blob(bytes) == <<bytes>>

ChunkRow(path, index, type, mode, mtime, content, totalSize) ==
    [path |-> path, chunk_index |-> index, type |-> type, mode |-> mode,
     mtime |-> mtime, content |-> content, total_size |-> totalSize]

(***************************************************************************)
(* stats-utils.ts                                                          *)
(***************************************************************************)
\* mtime is kept as the millisecond count that toISOString() prints and
\* Date.parse() reads back without loss
createStats(row) ==
    LET size == IF row.type = "directory" THEN 0
                ELSE IF row.content = Null THEN 0 ELSE Len(row.content[1])
    IN  [isFile |-> row.type = "file",
         isDirectory |-> row.type = "directory",
         isSymbolicLink |-> row.type = "symlink",
         mode |-> row.mode,
         size |-> size,
         mtimeMs |-> row.mtime]

(***************************************************************************)
(* SQLiteFSAdapter: every method returns the table it leaves, the code of  *)
(* the FSError it throws ("OK" when it returns) and its return value.      *)
(***************************************************************************)
Outcome(db, code, value) == [rows |-> db, code |-> code, value |-> value]
NoValue == <<>>

DefaultDirMode == 493     \* 0o755
DefaultFileMode == 420    \* 0o644

_lstat(a, db, path) ==
    LET dbPath == normalize(path)
        got == DbOne(a, SelectMeta(db, dbPath))
    IN  IF ~got.thrown THEN Outcome(db, "OK", createStats(got.row[1]))
        ELSE IF isNotFoundError(got) THEN Outcome(db, "ENOENT", NoValue)
        ELSE Outcome(db, "EIO", NoValue)

_stat(a, db, path) == _lstat(a, db, path)

_readFile(a, db, path) ==
    LET dbPath == normalize(path)
        metadataRow == DbOne(a, SelectMeta(db, dbPath))
    IN  IF metadataRow.thrown
        THEN IF isNotFoundError(metadataRow) THEN Outcome(db, "ENOENT", NoValue)
             ELSE Outcome(db, "EIO", NoValue)
        ELSE IF metadataRow.row[1].type = "directory"
        THEN Outcome(db, "EISDIR", NoValue)
        ELSE LET chunkRows == OrderByChunkIndex({r \in db : r.path = dbPath})
                 contentChunks == [i \in 1..Len(chunkRows) |->
                     IF chunkRows[i].content = Null THEN <<>>
                     ELSE chunkRows[i].content[1]]
             IN  Outcome(db, "OK", Flatten(contentChunks))

\* rows.map(row => basename(row.path)); the statement has no ORDER BY, the
\* order kept here is an arbitrary fixed one
RECURSIVE BasenamesOf(_)
BasenamesOf(sel) ==
    IF sel = {} THEN <<>>
    ELSE LET r == CHOOSE q \in sel : TRUE
         IN  <<basename(r.path)>> \o BasenamesOf(sel \ {r})

IsRootPath(p) == p = Dot \/ p = <<Sep>>

DirPrefix(dbPath) == IF EndsWith(dbPath, <<Sep>>) THEN dbPath ELSE Append(dbPath, Sep)

_readdir(a, db, path) ==
    LET dbPath == normalize(path)
        fileCheck == DbOne(a, SelectMeta(db, dbPath))
        dirPrefix == DirPrefix(dbPath)
        children ==
            IF IsRootPath(dbPath)
            THEN {r \in db : /\ r.chunk_index = 0
                             /\ r.path # Dot
                             /\ r.path # <<Sep>>
                             /\ ~Like(r.path, <<"%", Sep, "%">>)}
            ELSE {r \in db : /\ r.chunk_index = 0
                             /\ Like(r.path, dirPrefix \o <<"%">>)
                             /\ ~Like(r.path, dirPrefix \o <<"%", Sep, "%">>)
                             /\ r.path # dbPath}
    IN  IF ~IsRootPath(dbPath) /\ fileCheck.thrown
        THEN IF isNotFoundError(fileCheck) THEN Outcome(db, "ENOENT", NoValue)
             ELSE Outcome(db, "EIO", NoValue)
        ELSE IF ~IsRootPath(dbPath) /\ fileCheck.row[1].type # "directory"
        THEN Outcome(db, "ENOTDIR", NoValue)
        ELSE Outcome(db, "OK", BasenamesOf(children))

\* A parent check that accepts any existing entry as the parent
CheckParentAnyType(a, db, dbPath) ==
    LET parentPath == dirname(dbPath)
        parent == DbOne(a, SelectMeta(db, parentPath))
    IN  IF IsRootPath(parentPath) THEN "OK"
        ELSE IF parent.thrown
        THEN IF isNotFoundError(parent) THEN "ENOENT" ELSE "EIO"
        ELSE "OK"

\* A parent check that looks for a row of the root as for any other parent
CheckParentRooted(a, db, dbPath) ==
    LET parentPath == dirname(dbPath)
        parent == DbOne(a, SelectMeta(db, parentPath))
    IN  IF parent.thrown
        THEN IF isNotFoundError(parent) THEN "ENOENT" ELSE "EIO"
        ELSE IF parent.row[1].type # "directory" THEN "ENOTDIR"
        ELSE "OK"

\* The parent check shared by _mkdir and _writeFile: "OK" or the code thrown
CheckParent(a, db, dbPath) ==
    LET parentPath == dirname(dbPath)
        parent == DbOne(a, SelectMeta(db, parentPath))
    IN  IF IsRootPath(parentPath) THEN "OK"
        ELSE IF parent.thrown
        THEN IF isNotFoundError(parent) THEN "ENOENT" ELSE "EIO"
        ELSE IF parent.row[1].type # "directory" THEN "ENOTDIR"
        ELSE "OK"

\* A mkdir that also stamps the parent directory with the time of the call
_mkdirTouchingParent(a, db, path, mode, mtime) ==
    LET dbPath == normalize(path)
        existing == DbOne(a, SelectMeta(db, dbPath))
        parentCode == CheckParent(a, db, dbPath)
    IN  IF ~existing.thrown THEN Outcome(db, "EEXIST", NoValue)
        ELSE IF ~isNotFoundError(existing) THEN Outcome(db, "EIO", NoValue)
        ELSE IF parentCode # "OK" THEN Outcome(db, parentCode, NoValue)
        ELSE Outcome({IF r.path = dirname(dbPath) THEN [r EXCEPT !.mtime = mtime] ELSE r
                         : r \in db}
                        \cup {ChunkRow(dbPath, 0, "directory", mode, mtime, Null, 0)},
                     "OK", NoValue)

_mkdir(a, db, path, mode, mtime) ==
    LET dbPath == normalize(path)
        existing == DbOne(a, SelectMeta(db, dbPath))
        parentCode == CheckParent(a, db, dbPath)
    IN  IF ~existing.thrown THEN Outcome(db, "EEXIST", NoValue)
        ELSE IF ~isNotFoundError(existing) THEN Outcome(db, "EIO", NoValue)
        ELSE IF parentCode # "OK" THEN Outcome(db, parentCode, NoValue)
        ELSE Outcome(db \cup {ChunkRow(dbPath, 0, "directory", mode, mtime, Null, 0)},
                     "OK", NoValue)

\* _writeFile with a loop that stops one chunk early ("i < chunkCount - 1")
FileChunksShort(dbPath, buffer, mode, mtime) ==
    LET totalSize == Len(buffer)
    IN  IF FitsOneChunk(totalSize)
        THEN {ChunkRow(dbPath, 0, "file", mode, mtime, Blob(buffer), totalSize)}
        ELSE {ChunkRow(dbPath, 0, "file", mode, mtime,
                       Blob(Slice(buffer, 0, TruncChunks(1))), totalSize)}
             \cup
             {ChunkRow(dbPath, i, "file", mode, mtime,
                       Blob(Slice(buffer, TruncChunks(i),
                                  Min(TruncChunks(i + 1), totalSize))),
                       totalSize) : i \in 1..(CeilDivChunk(totalSize) - 2)}

\* _writeFile storing with each later chunk the length of that chunk
FileChunksOwnSize(dbPath, buffer, mode, mtime) ==
    LET totalSize == Len(buffer)
    IN  IF FitsOneChunk(totalSize)
        THEN {ChunkRow(dbPath, 0, "file", mode, mtime, Blob(buffer), totalSize)}
        ELSE {ChunkRow(dbPath, 0, "file", mode, mtime,
                       Blob(Slice(buffer, 0, TruncChunks(1))), totalSize)}
             \cup
             {ChunkRow(dbPath, i, "file", mode, mtime,
                       Blob(Slice(buffer, TruncChunks(i),
                                  Min(TruncChunks(i + 1), totalSize))),
                       Min(TruncChunks(i + 1), totalSize) - TruncChunks(i))
                  : i \in 1..(CeilDivChunk(totalSize) - 1)}

\* The rows _writeFile inserts for a buffer
FileChunks(dbPath, buffer, mode, mtime) ==
    LET totalSize == Len(buffer)
    IN  IF FitsOneChunk(totalSize)
        THEN {ChunkRow(dbPath, 0, "file", mode, mtime, Blob(buffer), totalSize)}
        ELSE LET chunkCount == CeilDivChunk(totalSize)
                 firstChunk == Slice(buffer, 0, TruncChunks(1))
             IN  {ChunkRow(dbPath, 0, "file", mode, mtime, Blob(firstChunk), totalSize)}
                 \cup
                 {ChunkRow(dbPath, i, "file", mode, mtime,
                           Blob(Slice(buffer, TruncChunks(i),
                                      Min(TruncChunks(i + 1), totalSize))),
                           totalSize) : i \in 1..(chunkCount - 1)}

\* A write without the "DELETE FROM file_chunks WHERE path = ?" before the inserts
_writeFileNoDelete(a, db, path, data, mode, mtime) ==
    LET dbPath == normalize(path)
        parentCode == CheckParent(a, db, dbPath)
        existing == DbOne(a, SelectMeta(db, dbPath))
        inserted == FileChunks(dbPath, data, mode, mtime)
    IN  IF parentCode # "OK" THEN Outcome(db, parentCode, NoValue)
        ELSE IF ~existing.thrown /\ existing.row[1].type = "directory"
        THEN Outcome(db, "EISDIR", NoValue)
        ELSE IF existing.thrown /\ ~isNotFoundError(existing)
        THEN Outcome(db, "EIO", NoValue)
        ELSE Outcome({r \in db : \A n \in inserted :
                                    ~(r.path = n.path /\ r.chunk_index = n.chunk_index)}
                        \cup inserted,
                     "OK", NoValue)

\* A write that deletes the rows of the path before it looks whether the
\* path is a directory
_writeFileDeleteFirst(a, db, path, data, mode, mtime) ==
    LET dbPath == normalize(path)
        parentCode == CheckParent(a, db, dbPath)
        existing == DbOne(a, SelectMeta(db, dbPath))
    IN  IF parentCode # "OK" THEN Outcome(db, parentCode, NoValue)
        ELSE IF ~existing.thrown /\ existing.row[1].type = "directory"
        THEN Outcome({r \in db : r.path # dbPath}, "EISDIR", NoValue)
        ELSE IF existing.thrown /\ ~isNotFoundError(existing)
        THEN Outcome(db, "EIO", NoValue)
        ELSE Outcome({r \in db : r.path # dbPath}
                        \cup FileChunks(dbPath, data, mode, mtime),
                     "OK", NoValue)

_writeFile(a, db, path, data, mode, mtime) ==
    LET dbPath == normalize(path)
        parentCode == CheckParent(a, db, dbPath)
        existing == DbOne(a, SelectMeta(db, dbPath))
    IN  IF parentCode # "OK" THEN Outcome(db, parentCode, NoValue)
        ELSE IF ~existing.thrown /\ existing.row[1].type = "directory"
        THEN Outcome(db, "EISDIR", NoValue)
        ELSE IF existing.thrown /\ ~isNotFoundError(existing)
        THEN Outcome(db, "EIO", NoValue)
        ELSE Outcome({r \in db : r.path # dbPath}
                        \cup FileChunks(dbPath, data, mode, mtime),
                     "OK", NoValue)

\* A write that replaces the chunks one by one, without deleting the old ones first
_writeFileInterruptedInPlace(a, db, path, data, mode, mtime, calls) ==
    LET dbPath == normalize(path)
        selects == IF IsRootPath(dirname(dbPath)) THEN 1 ELSE 2
        inserted == {r \in FileChunks(dbPath, data, mode, mtime) :
                        r.chunk_index < calls - selects}
    IN  IF _writeFile(a, db, path, data, mode, mtime).code # "OK" \/ calls <= selects
        THEN db
        ELSE {r \in db : \A n \in inserted :
                            ~(r.path = n.path /\ r.chunk_index = n.chunk_index)}
             \cup inserted

\* The store when _writeFile stops for good after `calls` of its store calls
\* have completed.  The calls of a write that passes its checks are, in order:
\* the SELECT of the parent (left out below the root), the SELECT of the path,
\* the DELETE, the INSERT of chunk 0 and one INSERT per later chunk; each
\* exec() is committed by itself.
_writeFileInterrupted(a, db, path, data, mode, mtime, calls) ==
    LET dbPath == normalize(path)
        selects == IF IsRootPath(dirname(dbPath)) THEN 1 ELSE 2
    IN  IF _writeFile(a, db, path, data, mode, mtime).code # "OK" \/ calls <= selects
        THEN db
        ELSE {r \in db : r.path # dbPath}
             \cup {r \in FileChunks(dbPath, data, mode, mtime) :
                      r.chunk_index < calls - selects - 1}

\* An unlink whose DELETE also names chunk_index 0
_unlinkFirstChunk(a, db, path) ==
    LET dbPath == normalize(path)
        file == DbOne(a, SelectMeta(db, dbPath))
    IN  IF file.thrown
        THEN IF isNotFoundError(file) THEN Outcome(db, "ENOENT", NoValue)
             ELSE Outcome(db, "EIO", NoValue)
        ELSE IF file.row[1].type = "directory" THEN Outcome(db, "EPERM", NoValue)
        ELSE Outcome({r \in db : ~(r.path = dbPath /\ r.chunk_index = 0)},
                     "OK", NoValue)

_unlink(a, db, path) ==
    LET dbPath == normalize(path)
        file == DbOne(a, SelectMeta(db, dbPath))
    IN  IF file.thrown
        THEN IF isNotFoundError(file) THEN Outcome(db, "ENOENT", NoValue)
             ELSE Outcome(db, "EIO", NoValue)
        ELSE IF file.row[1].type = "directory" THEN Outcome(db, "EPERM", NoValue)
        ELSE Outcome({r \in db : r.path # dbPath}, "OK", NoValue)

\* "... LIMIT 1"
Limit1(sel) == IF sel = {} THEN {} ELSE {CHOOSE r \in sel : TRUE}

\* The emptiness probe of _rmdir:
\* "SELECT path FROM file_chunks WHERE path LIKE ? AND path != ? AND chunk_index = 0 LIMIT 1"
\* with parameters dirPrefix + "%" and dbPath
SelectChildren(db, dbPath) ==
    {r \in db : /\ Like(r.path, DirPrefix(dbPath) \o <<"%">>)
                /\ r.path # dbPath
                /\ r.chunk_index = 0}

\* An rmdir without the check that the entry is a directory
_rmdirAnyType(a, db, path) ==
    LET dbPath == normalize(path)
        file == DbOne(a, SelectMeta(db, dbPath))
        child == DbOne(a, Limit1(SelectChildren(db, dbPath)))
    IN  IF file.thrown
        THEN IF isNotFoundError(file) THEN Outcome(db, "ENOENT", NoValue)
             ELSE Outcome(db, "EIO", NoValue)
        ELSE IF ~child.thrown THEN Outcome(db, "ENOTEMPTY", NoValue)
        ELSE IF ~isNotFoundError(child) THEN Outcome(db, "EIO", NoValue)
        ELSE Outcome({r \in db : ~(r.path = dbPath /\ r.chunk_index = 0)},
                     "OK", NoValue)

\* An rmdir without the probe for entries below the directory
_rmdirUnprobed(a, db, path) ==
    LET dbPath == normalize(path)
        file == DbOne(a, SelectMeta(db, dbPath))
    IN  IF file.thrown
        THEN IF isNotFoundError(file) THEN Outcome(db, "ENOENT", NoValue)
             ELSE Outcome(db, "EIO", NoValue)
        ELSE IF file.row[1].type # "directory" THEN Outcome(db, "ENOTDIR", NoValue)
        ELSE Outcome({r \in db : ~(r.path = dbPath /\ r.chunk_index = 0)},
                     "OK", NoValue)

_rmdir(a, db, path) ==
    LET dbPath == normalize(path)
        file == DbOne(a, SelectMeta(db, dbPath))
        child == DbOne(a, Limit1(SelectChildren(db, dbPath)))
    IN  IF file.thrown
        THEN IF isNotFoundError(file) THEN Outcome(db, "ENOENT", NoValue)
             ELSE Outcome(db, "EIO", NoValue)
        ELSE IF file.row[1].type # "directory" THEN Outcome(db, "ENOTDIR", NoValue)
        ELSE IF ~child.thrown THEN Outcome(db, "ENOTEMPTY", NoValue)
        ELSE IF ~isNotFoundError(child) THEN Outcome(db, "EIO", NoValue)
        ELSE Outcome({r \in db : ~(r.path = dbPath /\ r.chunk_index = 0)},
                     "OK", NoValue)

\* the stubs: symbolic links are not supported
_readlink(a, db, path) == Outcome(db, "EINVAL", NoValue)

_symlink(a, db, target, path) == Outcome(db, "EPERM", NoValue)

(***************************************************************************)
(* Inputs of the filesystem model.                                         *)
(***************************************************************************)
MaxLen == 4      \* longest buffer written
MaxTime == 2     \* distinct clock readings new Date() may return

\* Buffers <<1>>, <<1, 2>>, ...: every byte differs from its neighbours, so a
\* lost, repeated or misplaced byte shows
Buffers == {[i \in 1..n |-> i] : n \in 0..MaxLen}

\* options?.mode: absent (<<>>) or given
ModeOptions == {<<>>, <<384>>}    \* 384 = 0o600
ModeOr(option, default) == IF option = <<>> THEN default ELSE option[1]

Times == 1..MaxTime

\* "d", "d/x", "d/x/y", "D", "_" and the unnormalised spelling "./d"
FilePaths == {<<"d">>, <<"d", "/", "x">>, <<"d", "/", "x", "/", "y">>}
DirPaths == {<<"d">>, <<"d", "/", "x">>, <<"D">>, <<"_">>}
AllPaths == FilePaths \cup DirPaths \cup {<<".", "/", "d">>}

NoCall == [op |-> "none", path |-> <<>>, data |-> <<>>, code |-> "", value |-> NoValue]

Call(op, path, data, out) ==
    [op |-> op, path |-> path, data |-> data, code |-> out.code, value |-> out.value]

(***************************************************************************)
(* The filesystem's public methods as actions.  A method runs to its end;  *)
(* Return hands its result to the caller.                                  *)
(***************************************************************************)
Lstat ==
    /\ fsCall.op = "none"
    /\ \E path \in AllPaths :
         LET out == _lstat(adapter, rows, path)
         IN  /\ rows' = out.rows
             /\ fsCall' = Call("lstat", path, <<>>, out)
    /\ UNCHANGED <<adapter, pkt, rpVars>>

Stat ==
    /\ fsCall.op = "none"
    /\ \E path \in AllPaths :
         LET out == _stat(adapter, rows, path)
         IN  /\ rows' = out.rows
             /\ fsCall' = Call("stat", path, <<>>, out)
    /\ UNCHANGED <<adapter, pkt, rpVars>>

ReadFile ==
    /\ fsCall.op = "none"
    /\ \E path \in AllPaths :
         LET out == _readFile(adapter, rows, path)
         IN  /\ rows' = out.rows
             /\ fsCall' = Call("readFile", path, <<>>, out)
    /\ UNCHANGED <<adapter, pkt, rpVars>>

Readdir ==
    /\ fsCall.op = "none"
    /\ \E path \in AllPaths \cup {Dot} :
         LET out == _readdir(adapter, rows, path)
         IN  /\ rows' = out.rows
             /\ fsCall' = Call("readdir", path, <<>>, out)
    /\ UNCHANGED <<adapter, pkt, rpVars>>

Mkdir ==
    /\ fsCall.op = "none"
    /\ \E path \in DirPaths, option \in ModeOptions, now \in Times :
         LET out == _mkdir(adapter, rows, path, ModeOr(option, DefaultDirMode), now)
         IN  /\ rows' = out.rows
             /\ fsCall' = Call("mkdir", path, <<>>, out)
    /\ UNCHANGED <<adapter, pkt, rpVars>>

WriteFile ==
    /\ fsCall.op = "none"
    /\ \E path \in FilePaths \cup {<<".", "/", "d">>}, data \in Buffers,
          option \in ModeOptions, now \in Times :
         LET out == _writeFile(adapter, rows, path, data,
                               ModeOr(option, DefaultFileMode), now)
         IN  /\ rows' = out.rows
             /\ fsCall' = Call("writeFile", path, data, out)
    /\ UNCHANGED <<adapter, pkt, rpVars>>

\* writeFile cut short by a crash of the host between two of its store calls:
\* nothing is returned, the store keeps what the completed calls did.  value
\* holds the number of calls that completed.
WriteFileCrash ==
    /\ fsCall.op = "none"
    /\ \E path \in FilePaths \cup {<<".", "/", "d">>}, data \in Buffers,
          option \in ModeOptions, now \in Times :
       \E dbPath \in {normalize(path)} :
       \E total \in {(IF IsRootPath(dirname(dbPath)) THEN 1 ELSE 2) + 1
                       + Cardinality(FileChunks(dbPath, data, 0, now))} :
       \E calls \in 1..(total - 1) :
          /\ _writeFile(adapter, rows, path, data,
                        ModeOr(option, DefaultFileMode), now).code = "OK"
          /\ rows' = _writeFileInterrupted(adapter, rows, path, data,
                                           ModeOr(option, DefaultFileMode), now, calls)
          /\ fsCall' = [op |-> "writeFile", path |-> path, data |-> data,
                        code |-> "CRASH", value |-> <<calls>>]
    /\ UNCHANGED <<adapter, pkt, rpVars>>

Unlink ==
    /\ fsCall.op = "none"
    /\ \E path \in AllPaths :
         LET out == _unlink(adapter, rows, path)
         IN  /\ rows' = out.rows
             /\ fsCall' = Call("unlink", path, <<>>, out)
    /\ UNCHANGED <<adapter, pkt, rpVars>>

Rmdir ==
    /\ fsCall.op = "none"
    /\ \E path \in AllPaths :
         LET out == _rmdir(adapter, rows, path)
         IN  /\ rows' = out.rows
             /\ fsCall' = Call("rmdir", path, <<>>, out)
    /\ UNCHANGED <<adapter, pkt, rpVars>>

Readlink ==
    /\ fsCall.op = "none"
    /\ \E path \in FilePaths :
         LET out == _readlink(adapter, rows, path)
         IN  /\ rows' = out.rows
             /\ fsCall' = Call("readlink", path, <<>>, out)
    /\ UNCHANGED <<adapter, pkt, rpVars>>

Symlink ==
    /\ fsCall.op = "none"
    /\ \E path \in FilePaths, target \in {<<"d">>} :
         LET out == _symlink(adapter, rows, target, path)
         IN  /\ rows' = out.rows
             /\ fsCall' = Call("symlink", path, target, out)
    /\ UNCHANGED <<adapter, pkt, rpVars>>

Return ==
    /\ fsCall.op # "none"
    /\ fsCall' = NoCall
    /\ UNCHANGED <<rows, adapter, pkt, rpVars>>

(***************************************************************************)
(* Placeholders of the receive-pack state for the filesystem runs.         *)
(***************************************************************************)
Absent == <<>>
NoPush == [phase |-> "idle"]
NoPkt == [op |-> "none", input |-> <<>>, offset |-> 0, thrown |-> FALSE,
          bytes |-> <<>>, units |-> <<>>, lines |-> <<>>, next |-> 0]

\* The repository object as its constructor leaves it on a repository without
\* a stored status.  tasks holds where each of two webSocketMessage calls
\* stands, clones counts the clones whose git operations began, answer is
\* what the last listFiles or getLastCommit call returned, next to what HEAD
\* resolved to when it was called.
NoRepo == [status |-> "new", stored |-> "new", files |-> Absent,
           commitInfo |-> Absent, tasks |-> [t \in {1, 2} |-> "idle"],
           clones |-> 0, answer |-> Absent]

FsInit ==
    /\ rows = {}
    /\ adapter = "do"
    /\ fsCall = NoCall
    /\ refs = <<>>
    /\ headFile = Absent
    /\ gitDir = FALSE
    /\ push = NoPush
    /\ pkt = NoPkt
    /\ repo = NoRepo

FsNext ==
    \/ Lstat
    \/ Stat
    \/ ReadFile
    \/ Readdir
    \/ Mkdir
    \/ WriteFile
    \/ Unlink
    \/ Rmdir
    \/ Readlink
    \/ Symlink
    \/ Return

\* The filesystem over the Durable Object adapter, from the empty store
FsSpec == FsInit /\ [][FsNext]_vars

\* The empty store, or the store after mkdir("d")
CrashInit ==
    /\ rows \in {{}, {ChunkRow(<<"d">>, 0, "directory", DefaultDirMode, 1, Null, 0)}}
    /\ adapter = "do"
    /\ fsCall = NoCall
    /\ refs = <<>>
    /\ headFile = Absent
    /\ gitDir = FALSE
    /\ push = NoPush
    /\ pkt = NoPkt
    /\ repo = NoRepo

CrashNext ==
    \/ WriteFile
    \/ WriteFileCrash
    \/ Return

\* Writes that complete and writes that a crash of the host cuts short
CrashSpec == CrashInit /\ [][CrashNext]_vars

\* The store the tests of the adapter seed over BunSqliteAdapter: the root row,
\* a directory holding a file, and an empty directory
BunInit ==
    /\ rows = {ChunkRow(Dot, 0, "directory", 16877, 1, Null, 0),
               ChunkRow(<<"d">>, 0, "directory", 16877, 1, Null, 0),
               ChunkRow(<<"d", "/", "x">>, 0, "file", 33188, 1, Blob(<<1>>), 1),
               ChunkRow(<<"_">>, 0, "directory", 16877, 1, Null, 0)}
    /\ adapter = "bun"
    /\ fsCall = NoCall
    /\ refs = <<>>
    /\ headFile = Absent
    /\ gitDir = FALSE
    /\ push = NoPush
    /\ pkt = NoPkt
    /\ repo = NoRepo

\* The filesystem over BunSqliteAdapter, from the seeded store
BunSpec == BunInit /\ [][FsNext]_vars

\* The errors a failing statement of the store raises: the name is never that
\* of row absence, and drivers may set a code of their own on the error
StoreErrors == [name : {"Error", "SQLiteError"}, code : {"", "SQLITE_BUSY", "SQLITE_IOERR"}]

\* A call during which the first statement sent to the store throws: the
\* inner catch blocks rethrow what is not row absence, and the catch block of
\* the method decides what reaches the caller
StoreFailure ==
    /\ fsCall.op = "none"
    /\ \E op \in {"lstat", "stat", "readFile", "readdir", "mkdir", "writeFile",
                   "unlink", "rmdir"} :
       \E path \in AllPaths :
       \E error \in StoreErrors :
         LET thrown ==
                 IF op \in {"lstat", "stat"}
                 THEN IF isNotFoundError(error) THEN "ENOENT" ELSE "EIO"
                 ELSE IF op = "readdir"
                 THEN IF isNotFoundError(error) THEN "ENOENT"
                      ELSE IF error.code # "" THEN error.code
                      ELSE "EIO"
                 ELSE IF error.code # "" THEN error.code
                 ELSE IF op \in {"readFile", "unlink", "rmdir"} /\ isNotFoundError(error)
                 THEN "ENOENT"
                 ELSE "EIO"
         IN  fsCall' = Call(op, path, <<>>, Outcome(rows, thrown, NoValue))
    /\ UNCHANGED <<rows, adapter, pkt, rpVars>>

FaultNext ==
    \/ StoreFailure
    \/ Return

\* The filesystem over a store whose statements fail
FaultSpec == BunInit /\ [][FaultNext]_vars

(***************************************************************************)
(* pkt-line.ts: the pkt-line codec.                                        *)
(***************************************************************************)
NUL == "NUL"     \* the byte 0

HexDigits == <<"0","1","2","3","4","5","6","7","8","9","a","b","c","d","e","f">>

\* n.toString(16)
RECURSIVE ToHex(_)
ToHex(n) == IF n < 16 THEN <<HexDigits[n + 1]>>
            ELSE Append(ToHex(n \div 16), HexDigits[(n % 16) + 1])

\* the digits of toString(16) without the padding
PadStartNone(s) == s

\* s.padStart(4, "0")
PadStart4(s) == IF Len(s) >= 4 THEN s ELSE [i \in 1..(4 - Len(s)) |-> "0"] \o s

MaxPktLen == 65535    \* 0xffff

\* encodePktLine: the framed bytes, or thrown when the line is too long
encodePktLine(payload) ==
    LET length == Len(payload) + 4
    IN  IF length > MaxPktLen
        THEN [thrown |-> TRUE, bytes |-> <<>>]
        ELSE [thrown |-> FALSE, bytes |-> PadStart4(ToHex(length)) \o payload]

encodePktFlush == <<"0", "0", "0", "0">>

concatBytes(chunks) == Flatten(chunks)

\* Number.parseInt(str, 16): leading white space, a sign, an optional 0x,
\* then the longest run of hexadecimal digits; NaN when that run is empty
WhiteSpace == {" ", "\t", "\n", "\r"}

IsHexDigit(c) == \E i \in 1..16 : HexDigits[i] = FoldCase(c)
HexValue(c) == (CHOOSE i \in 1..16 : HexDigits[i] = FoldCase(c)) - 1

RECURSIVE DropWhile(_, _)
DropWhile(s, set) ==
    IF s # <<>> /\ Head(s) \in set THEN DropWhile(Tail(s), set) ELSE s

RECURSIVE HexRun(_, _, _)
\* <<value, digits>> of the longest run of hex digits s starts with
HexRun(s, value, count) ==
    IF s # <<>> /\ IsHexDigit(Head(s))
    THEN HexRun(Tail(s), value * 16 + HexValue(Head(s)), count + 1)
    ELSE <<value, count>>

parseInt16(str) ==
    LET s1 == DropWhile(str, WhiteSpace)
        negative == s1 # <<>> /\ Head(s1) = "-"
        s2 == IF s1 # <<>> /\ Head(s1) \in {"+", "-"} THEN Tail(s1) ELSE s1
        s3 == IF Len(s2) >= 2 /\ s2[1] = "0" /\ s2[2] \in {"x", "X"}
              THEN SubSeq(s2, 3, Len(s2)) ELSE s2
        run == HexRun(s3, 0, 0)
    IN  [nan |-> run[2] = 0,
         value |-> IF negative THEN 0 - run[1] ELSE run[1]]

decodePktLineLength(prefix) ==
    LET parsed == parseInt16(prefix)
    IN  IF Len(prefix) # 4 THEN [thrown |-> TRUE, length |-> 0]
        ELSE IF parsed.nan \/ parsed.value < 0 \/ parsed.value > MaxPktLen
        THEN [thrown |-> TRUE, length |-> 0]
        ELSE [thrown |-> FALSE, length |-> parsed.value]

\* parsePktLines: the units the generator yields from startOffset on, and
\* whether it then throws.  inputLength is input.length; it exceeds
\* Len(input) when the buffer goes on with bytes the model does not spell out.
\* PktUnitAt is one turn of its loop, on the length the prefix decoded to.
RECURSIVE parsePktLines(_, _, _)
\* One turn of a loop that also rejects the declared length 4
PktUnitAtNoEmpty(input, inputLength, offset, decoded) ==
    LET length == decoded.length
        next == IF length <= 1 THEN offset + 4 ELSE offset + length
        unit == [type |-> IF length = 0 THEN "flush"
                          ELSE IF length = 1 THEN "delimiter" ELSE "data",
                 data |-> IF length <= 1 THEN <<>>
                          ELSE Slice(input, offset + 4, offset + length),
                 offset |-> offset,
                 nextOffset |-> next]
    IN  IF decoded.thrown THEN [units |-> <<>>, thrown |-> TRUE]
        ELSE IF length > 1 /\ length <= 4 THEN [units |-> <<>>, thrown |-> TRUE]
        ELSE IF length >= 4 /\ offset + length > inputLength
        THEN [units |-> <<>>, thrown |-> TRUE]
        ELSE LET rest == parsePktLines(input, inputLength, next)
             IN  [units |-> <<unit>> \o rest.units, thrown |-> rest.thrown]

\* One turn of a loop without the check "length < 4"
PktUnitAtShortData(input, inputLength, offset, decoded) ==
    LET length == decoded.length
        next == IF length <= 1 THEN offset + 4 ELSE offset + length
        unit == [type |-> IF length = 0 THEN "flush"
                          ELSE IF length = 1 THEN "delimiter" ELSE "data",
                 data |-> IF length <= 1 THEN <<>>
                          ELSE Slice(input, offset + 4, offset + length),
                 offset |-> offset,
                 nextOffset |-> next]
    IN  IF decoded.thrown THEN [units |-> <<>>, thrown |-> TRUE]
        ELSE IF length >= 4 /\ offset + length > inputLength
        THEN [units |-> <<>>, thrown |-> TRUE]
        ELSE LET rest == parsePktLines(input, inputLength, next)
             IN  [units |-> <<unit>> \o rest.units, thrown |-> rest.thrown]

\* One turn of a loop without the truncation check: slice() clips the payload
PktUnitAtClipped(input, inputLength, offset, decoded) ==
    LET length == decoded.length
        next == IF length <= 1 THEN offset + 4 ELSE offset + length
        unit == [type |-> IF length = 0 THEN "flush"
                          ELSE IF length = 1 THEN "delimiter" ELSE "data",
                 data |-> IF length <= 1 THEN <<>>
                          ELSE Slice(input, offset + 4, offset + length),
                 offset |-> offset,
                 nextOffset |-> next]
    IN  IF decoded.thrown THEN [units |-> <<>>, thrown |-> TRUE]
        ELSE IF length > 1 /\ length < 4 THEN [units |-> <<>>, thrown |-> TRUE]
        ELSE LET rest == parsePktLines(input, inputLength, next)
             IN  [units |-> <<unit>> \o rest.units, thrown |-> rest.thrown]

PktUnitAt(input, inputLength, offset, decoded) ==
    LET length == decoded.length
        next == IF length <= 1 THEN offset + 4 ELSE offset + length
        unit == [type |-> IF length = 0 THEN "flush"
                          ELSE IF length = 1 THEN "delimiter" ELSE "data",
                 data |-> IF length <= 1 THEN <<>>
                          ELSE Slice(input, offset + 4, offset + length),
                 offset |-> offset,
                 nextOffset |-> next]
    IN  IF decoded.thrown THEN [units |-> <<>>, thrown |-> TRUE]
        ELSE IF length > 1 /\ length < 4 THEN [units |-> <<>>, thrown |-> TRUE]
        ELSE IF length >= 4 /\ offset + length > inputLength
        THEN [units |-> <<>>, thrown |-> TRUE]
        ELSE LET rest == parsePktLines(input, inputLength, next)
             IN  [units |-> <<unit>> \o rest.units, thrown |-> rest.thrown]

parsePktLines(input, inputLength, offset) ==
    IF offset + 4 > inputLength \/ offset + 4 > Len(input)
    THEN [units |-> <<>>, thrown |-> FALSE]
    ELSE PktUnitAt(input, inputLength, offset,
                   decodePktLineLength(Slice(input, offset, offset + 4)))

\* the payloads of the data units before position f, in stream order
RECURSIVE OrderedData(_, _)
OrderedData(units, f) ==
    IF f <= 1 \/ units = <<>> THEN <<>>
    ELSE IF Head(units).type = "data"
    THEN <<Head(units).data>> \o OrderedData(Tail(units), f - 1)
    ELSE OrderedData(Tail(units), f - 1)

\* A loop that reads on to the last flush of the stream
UntilFlushLast(units) ==
    LET flushes == {i \in 1..Len(units) : units[i].type = "flush"}
    IN  IF flushes = {}
        THEN [thrown |-> TRUE, lines |-> <<>>, offset |-> 0]
        ELSE LET f == CHOOSE i \in flushes : \A j \in flushes : i >= j
             IN  [thrown |-> FALSE,
                  lines |-> OrderedData(units, f),
                  offset |-> units[f].nextOffset]

\* The loop of readPktLinesUntilFlush over the units the generator yields:
\* it stops at the first flush, so a failure behind that flush is never
\* raised; without a flush it throws (the generator's error, or its own)
UntilFlush(units) ==
    LET flushes == {i \in 1..Len(units) : units[i].type = "flush"}
    IN  IF flushes = {}
        THEN [thrown |-> TRUE, lines |-> <<>>, offset |-> 0]
        ELSE LET f == CHOOSE i \in flushes : \A j \in flushes : i <= j
             IN  [thrown |-> FALSE,
                  lines |-> OrderedData(units, f),
                  offset |-> units[f].nextOffset]

readPktLinesUntilFlush(input, inputLength, startOffset) ==
    UntilFlush(parsePktLines(input, inputLength, startOffset).units)

(***************************************************************************)
(* The codec applied to payloads and to byte streams.                      *)
(***************************************************************************)
MaxUnits == 3     \* longest stream decoded, in segments

\* payloads of the lengths at which the prefix gains a digit and around the
\* longest line, and payloads that look like a prefix or hold control bytes
Payloads ==
    {[i \in 1..n |-> "a"] : n \in {0, 1, 12, 252, 4092, MaxPktLen - 4, MaxPktLen - 3}}
    \cup {<<"0", "0", "0", "0">>, <<NUL>>, <<"\n", "b">>}

\* byte streams: up to MaxUnits segments, each a well-formed unit, a unit cut
\* short, a unit of declared length 2 or 3, a prefix that is not four
\* hexadecimal digits, or the first bytes of a prefix
PktStreams ==
    LET segments ==
        {<<"0", "0", "0", "0">>,
         <<"0", "0", "0", "1">>,
         <<"0", "0", "0", "2">>,
         <<"0", "0", "0", "3">>,
         <<"0", "0", "0", "4">>,
         <<"0", "0", "0", "5", "a">>,
         <<"0", "0", "0", "6", "a", "b">>,
         <<"0", "0", "0", "9", "a">>,
         <<"z", "z", "z", "z">>,
         <<"0", "0", "z", "z">>,
         <<"5", "z", "z", "z", "a">>,
         <<"0", "0", "0", "A", "a", "b", "c", "d", "e", "f">>,
         <<"0", "0">>}
    IN  UNION {{Flatten(seq) : seq \in [1..n -> segments]} : n \in 1..MaxUnits}

\* encodePktLine(payload)
Encode ==
    /\ pkt.op = "none"
    /\ \E payload \in Payloads :
       \E out \in {encodePktLine(payload)} :
         pkt' = [NoPkt EXCEPT !.op = "encode", !.input = payload,
                              !.thrown = out.thrown, !.bytes = out.bytes]
    /\ UNCHANGED <<fsVars, rpVars>>

\* [...parsePktLines(input, startOffset)]: the units yielded before the
\* generator ends or throws
Decode ==
    /\ pkt.op = "none"
    /\ \E input \in PktStreams : \E startOffset \in {0, 4} :
       \E out \in {parsePktLines(input, Len(input), startOffset)} :
         pkt' = [NoPkt EXCEPT !.op = "decode", !.input = input,
                              !.offset = startOffset,
                              !.thrown = out.thrown, !.units = out.units]
    /\ UNCHANGED <<fsVars, rpVars>>

\* readPktLinesUntilFlush(input, startOffset)
ReadUntilFlush ==
    /\ pkt.op = "none"
    /\ \E input \in PktStreams : \E startOffset \in {0, 4} :
       \E out \in {readPktLinesUntilFlush(input, Len(input), startOffset)} :
         pkt' = [NoPkt EXCEPT !.op = "readUntilFlush", !.input = input,
                              !.offset = startOffset,
                              !.thrown = out.thrown, !.lines = out.lines,
                              !.next = out.offset]
    /\ UNCHANGED <<fsVars, rpVars>>

\* the call has returned; the codec keeps nothing of it
Done ==
    /\ pkt.op # "none"
    /\ pkt' = NoPkt
    /\ UNCHANGED <<fsVars, rpVars>>

CodecInit ==
    /\ pkt = NoPkt
    /\ repo = NoRepo
    /\ rows = {}
    /\ adapter = "do"
    /\ fsCall = NoCall
    /\ refs = <<>>
    /\ headFile = Absent
    /\ gitDir = FALSE
    /\ push = NoPush

CodecNext ==
    \/ Encode
    \/ Decode
    \/ ReadUntilFlush
    \/ Done

\* The codec called with any payload or stream, in any order
CodecSpec == CodecInit /\ [][CodecNext]_vars

(***************************************************************************)
(* The servable repository object: receive-pack.                           *)
(***************************************************************************)
OidLen == 40
ZERO_OID == [i \in 1..OidLen |-> "0"]
MAX_PACK_SIZE == 30 * 1024 * 1024

TxtRefsPrefix == <<"r", "e", "f", "s", "/">>
TxtHeadsPrefix == <<"r", "e", "f", "s", "/", "h", "e", "a", "d", "s", "/">>
TxtRefsHeadsMain == <<"r", "e", "f", "s", "/", "h", "e", "a", "d", "s", "/", "m", "a", "i", "n">>
TxtHEAD == <<"H", "E", "A", "D">>
TxtPACK == <<"P", "A", "C", "K">>
TxtUnpackOk == <<"u", "n", "p", "a", "c", "k", " ", "o", "k", "\n">>
TxtUnpack == <<"u", "n", "p", "a", "c", "k", " ">>
TxtOk == <<"o", "k", " ">>
TxtNg == <<"n", "g", " ">>
TxtPackTooLarge == <<"e", "r", "r", "o", "r", ":", " ", "p", "a", "c", "k", " ", "t", "o", "o", " ", "l", "a", "r", "g", "e">>
TxtErrorColon == <<"e", "r", "r", "o", "r", ":", " ">>
TxtIndexPackFailed == <<"i", "n", "d", "e", "x", "-", "p", "a", "c", "k", " ", "f", "a", "i", "l", "e", "d">>
TxtUnpackFailed == <<"u", "n", "p", "a", "c", "k", " ", "f", "a", "i", "l", "e", "d">>
TxtInvalidRef == <<"i", "n", "v", "a", "l", "i", "d", " ", "r", "e", "f">>
TxtNonFastForward == <<"n", "o", "n", "-", "f", "a", "s", "t", "-", "f", "o", "r", "w", "a", "r", "d">>
TxtRefUpdateFailed == <<"r", "e", "f", " ", "u", "p", "d", "a", "t", "e", " ", "f", "a", "i", "l", "e", "d">>

\* decodePktText: TextDecoder on ASCII bytes
decodePktText(line) == line

\* String.prototype.trim
RECURSIVE DropTrailing(_, _)
DropTrailing(s, set) ==
    IF s # <<>> /\ s[Len(s)] \in set
    THEN DropTrailing(SubSeq(s, 1, Len(s) - 1), set) ELSE s

Trim(s) == DropTrailing(DropWhile(s, WhiteSpace), WhiteSpace)

\* s.split(/\s+/) of a trimmed string
RECURSIVE SplitWhiteSpace(_)
SplitWhiteSpace(s) ==
    LET k == IndexFrom(s, WhiteSpace, 1)
    IN  IF k = 0 THEN <<s>>
        ELSE <<SubSeq(s, 1, k - 1)>>
             \o SplitWhiteSpace(DropWhile(SubSeq(s, k + 1, Len(s)), WhiteSpace))

RefUpdate(oldOid, newOid, ref) == [oldOid |-> oldOid, newOid |-> newOid, ref |-> ref]

\* parseRefUpdates, from line i on (i = 0 is the first line)
RECURSIVE parseRefUpdatesFrom(_, _)
parseRefUpdatesFrom(commandLines, i) ==
    IF i >= Len(commandLines) THEN <<>>
    ELSE LET line == commandLines[i + 1]
             trimmed == IF EndsWith(line, <<"\n">>) THEN SubSeq(line, 1, Len(line) - 1)
                        ELSE line
             commandPart == IF i = 0 THEN SplitOn(trimmed, NUL)[1] ELSE trimmed
             parts == SplitWhiteSpace(Trim(commandPart))
             rest == parseRefUpdatesFrom(commandLines, i + 1)
         IN  IF commandPart = <<>> THEN rest
             ELSE IF Len(parts) < 3 THEN rest
             ELSE <<RefUpdate(parts[1], parts[2], parts[3])>> \o rest

parseRefUpdates(commandLines) == parseRefUpdatesFrom(commandLines, 0)

\* git.resolveRef wrapped by resolveRefOrZero.  store maps the names of the
\* refs that exist to their oids; head is the content of .git/HEAD.
resolveRefOrZero(store, head, ref) ==
    IF ref = TxtHEAD
    THEN IF head # Absent /\ head[1] \in DOMAIN store THEN store[head[1]] ELSE ZERO_OID
    ELSE IF ref \in DOMAIN store THEN store[ref] ELSE ZERO_OID

\* git.writeRef({ref, value, force: true})
writeRef(store, ref, value) ==
    [r \in DOMAIN store \cup {ref} |-> IF r = ref THEN value ELSE store[r]]

\* a deleteRef that leaves the ref in place
deleteRefKeeping(store, ref) == store

\* git.deleteRef({ref}); deleting a ref that does not exist is no error
deleteRef(store, ref) == [r \in DOMAIN store \ {ref} |-> store[r]]

\* getHeadTargetRef: git.currentBranch names the branch a symbolic HEAD points
\* at; without one (no HEAD, or a failure) the answer is refs/heads/main
getHeadTargetRef(head) ==
    IF head # Absent /\ StartsWith(head[1], TxtHeadsPrefix) /\ head[1] # TxtHeadsPrefix
    THEN head[1]
    ELSE TxtRefsHeadsMain

RefResult(ref, status, reason) == [ref |-> ref, status |-> status, reason |-> reason]

\* a round of updateRefs without the comparison of oldOid with the current oid
updateOneRefForced(store, head, update, storeThrows, message) ==
    LET currentOid == resolveRefOrZero(store, head, update.ref)
    IN  IF ~StartsWith(update.ref, TxtRefsPrefix)
        THEN [store |-> store, current |-> ZERO_OID,
              result |-> RefResult(update.ref, "ng", TxtInvalidRef)]
        ELSE IF storeThrows
        THEN [store |-> store, current |-> currentOid,
              result |-> RefResult(update.ref, "ng",
                            IF message # <<>> THEN message ELSE TxtRefUpdateFailed)]
        ELSE [store |-> IF update.newOid = ZERO_OID THEN deleteRef(store, update.ref)
                        ELSE writeRef(store, update.ref, update.newOid),
              current |-> currentOid,
              result |-> RefResult(update.ref, "ok", <<>>)]

\* a round of updateRefs without the check of the refs/ prefix
updateOneRefAnyName(store, head, update, storeThrows, message) ==
    LET currentOid == resolveRefOrZero(store, head, update.ref)
    IN  IF update.oldOid # currentOid
        THEN [store |-> store, current |-> currentOid,
              result |-> RefResult(update.ref, "ng", TxtNonFastForward)]
        ELSE IF storeThrows
        THEN [store |-> store, current |-> currentOid,
              result |-> RefResult(update.ref, "ng",
                            IF message # <<>> THEN message ELSE TxtRefUpdateFailed)]
        ELSE [store |-> IF update.newOid = ZERO_OID THEN deleteRef(store, update.ref)
                        ELSE writeRef(store, update.ref, update.newOid),
              current |-> currentOid,
              result |-> RefResult(update.ref, "ok", <<>>)]

\* One round of the loop of updateRefs on the store as the rounds before
\* left it.  storeThrows says whether the plumbing call of this round throws,
\* message is the message of the error it throws.
\* A round that deletes a ref without comparing oldOid with the ref's value
updateOneRefDeleteUnchecked(store, head, update, storeThrows, message) ==
    LET currentOid == resolveRefOrZero(store, head, update.ref)
    IN  IF ~StartsWith(update.ref, TxtRefsPrefix)
        THEN [store |-> store, current |-> ZERO_OID,
              result |-> RefResult(update.ref, "ng", TxtInvalidRef)]
        ELSE IF update.oldOid # currentOid /\ update.newOid # ZERO_OID
        THEN [store |-> store, current |-> currentOid,
              result |-> RefResult(update.ref, "ng", TxtNonFastForward)]
        ELSE IF storeThrows
        THEN [store |-> store, current |-> currentOid,
              result |-> RefResult(update.ref, "ng",
                            IF message # <<>> THEN message ELSE TxtRefUpdateFailed)]
        ELSE [store |-> IF update.newOid = ZERO_OID THEN deleteRef(store, update.ref)
                        ELSE writeRef(store, update.ref, update.newOid),
              current |-> currentOid,
              result |-> RefResult(update.ref, "ok", <<>>)]

updateOneRef(store, head, update, storeThrows, message) ==
    LET currentOid == resolveRefOrZero(store, head, update.ref)
    IN  IF ~StartsWith(update.ref, TxtRefsPrefix)
        THEN [store |-> store, current |-> ZERO_OID,
              result |-> RefResult(update.ref, "ng", TxtInvalidRef)]
        ELSE IF update.oldOid # currentOid
        THEN [store |-> store, current |-> currentOid,
              result |-> RefResult(update.ref, "ng", TxtNonFastForward)]
        ELSE IF storeThrows
        THEN [store |-> store, current |-> currentOid,
              result |-> RefResult(update.ref, "ng",
                            IF message # <<>> THEN message ELSE TxtRefUpdateFailed)]
        ELSE [store |-> IF update.newOid = ZERO_OID THEN deleteRef(store, update.ref)
                        ELSE writeRef(store, update.ref, update.newOid),
              current |-> currentOid,
              result |-> RefResult(update.ref, "ok", <<>>)]

\* updateRefs: the rounds in input order; each round records the store it
\* found (before), what resolveRefOrZero returned and the store it left.
\* failAt is the position of the command whose plumbing call throws (0: none).
RECURSIVE updateRefsFrom(_, _, _, _, _, _)
updateRefsFrom(store, head, updates, i, failAt, message) ==
    IF i > Len(updates) THEN <<>>
    ELSE LET round == updateOneRef(store, head, updates[i], failAt = i, message)
         IN  <<[before |-> store, current |-> round.current,
                after |-> round.store, result |-> round.result]>>
             \o updateRefsFrom(round.store, head, updates, i + 1, failAt, message)

updateRefs(store, head, updates, failAt, message) ==
    updateRefsFrom(store, head, updates, 1, failAt, message)

\* a maybeUpdateHeadAfterPush that takes the first candidate, main or not
maybeUpdateHeadAfterPushFirst(store, head, results, writeFails) ==
    LET headOid == resolveRefOrZero(store, head, TxtHEAD)
        okHeads == {i \in 1..Len(results) :
                       /\ results[i].status = "ok"
                       /\ StartsWith(results[i].ref, TxtHeadsPrefix)}
        first == CHOOSE i \in okHeads : \A j \in okHeads : i <= j
    IN  IF headOid # ZERO_OID \/ okHeads = {}
        THEN [head |-> head, writeCalled |-> FALSE]
        ELSE [head |-> IF writeFails THEN head ELSE <<results[first].ref>>,
              writeCalled |-> TRUE]

\* maybeUpdateHeadAfterPush: the content of .git/HEAD it leaves and whether
\* it called writeFile on it.  writeFails says that this writeFile throws,
\* which the method swallows.
maybeUpdateHeadAfterPush(store, head, results, writeFails) ==
    LET headOid == resolveRefOrZero(store, head, TxtHEAD)
        okHeads == {i \in 1..Len(results) :
                       /\ results[i].status = "ok"
                       /\ StartsWith(results[i].ref, TxtHeadsPrefix)}
        mains == {i \in okHeads : results[i].ref = TxtRefsHeadsMain}
        first == CHOOSE i \in okHeads : \A j \in okHeads : i <= j
        target == IF mains # {} THEN TxtRefsHeadsMain ELSE results[first].ref
    IN  IF headOid # ZERO_OID THEN [head |-> head, writeCalled |-> FALSE]
        ELSE IF okHeads = {} THEN [head |-> head, writeCalled |-> FALSE]
        ELSE [head |-> IF writeFails THEN head ELSE <<target>>, writeCalled |-> TRUE]

\* a buildReportStatus that reports the accepted commands only
buildReportStatusOkOnly(unpackOk, unpackError, refResults) ==
    LET unpackLine == IF unpackOk THEN encodePktLine(TxtUnpackOk)
                      ELSE encodePktLine(TxtUnpack \o unpackError \o <<"\n">>)
        okRefs == SelectSeq(refResults, LAMBDA r : r.status = "ok")
    IN  [thrown |-> unpackLine.thrown,
         bytes |-> concatBytes(<<unpackLine.bytes>>
                               \o [i \in 1..Len(okRefs) |->
                                      encodePktLine(TxtOk \o okRefs[i].ref \o <<"\n">>).bytes]
                               \o <<encodePktFlush>>)]

\* buildReportStatus; thrown when encodePktLine rejects a line
buildReportStatus(unpackOk, unpackError, refResults) ==
    LET unpackLine == IF unpackOk THEN encodePktLine(TxtUnpackOk)
                      ELSE encodePktLine(TxtUnpack \o unpackError \o <<"\n">>)
        refLine(result) ==
            IF result.status = "ok"
            THEN encodePktLine(TxtOk \o result.ref \o <<"\n">>)
            ELSE encodePktLine(TxtNg \o result.ref \o <<" ">> \o result.reason \o <<"\n">>)
        refLines == [i \in 1..Len(refResults) |-> refLine(refResults[i])]
    IN  [thrown |-> unpackLine.thrown \/ \E i \in 1..Len(refLines) : refLines[i].thrown,
         bytes |-> concatBytes(<<unpackLine.bytes>>
                               \o [i \in 1..Len(refLines) |-> refLines[i].bytes]
                               \o <<encodePktFlush>>)]

\* ensureGitRepoInitialized: git.init({defaultBranch: "main"}) when .git is
\* missing; it creates .git with HEAD pointing at the unborn branch main
ensureGitRepoInitialized(hasGitDir, head) ==
    IF hasGitDir THEN head ELSE <<TxtRefsHeadsMain>>

TxtTagsPrefix == <<"r", "e", "f", "s", "/", "t", "a", "g", "s", "/">>
TxtPeeled == <<"^", "{", "}">>
TxtServiceHeader == <<"#", " ", "s", "e", "r", "v", "i", "c", "e", "=", "g", "i", "t", "-", "r", "e", "c", "e", "i", "v", "e", "-", "p", "a", "c", "k", "\n">>
TxtCapabilitiesRef == <<"c", "a", "p", "a", "b", "i", "l", "i", "t", "i", "e", "s", "^", "{", "}">>

\* the capability list: the five capabilities joined by blanks, the agent
\* being RECEIVE_PACK_AGENT
capabilitiesFor(headTarget) ==
    JoinWith(<<<<"r", "e", "p", "o", "r", "t", "-", "s", "t", "a", "t", "u", "s">>,
               <<"d", "e", "l", "e", "t", "e", "-", "r", "e", "f", "s">>,
               <<"o", "f", "s", "-", "d", "e", "l", "t", "a">>,
               <<"s", "y", "m", "r", "e", "f", "=", "H", "E", "A", "D", ":">> \o headTarget,
               <<"a", "g", "e", "n", "t", "=", "c", "f", "-", "g", "i", "t", "/", "1", ".", "0">>>>, " ")

\* The order localeCompare gives the characters of the names: punctuation,
\* then symbols, then digits, then letters.  The names here are lower case, so
\* the comparison is decided by the first position where they differ.
CollationRank(c) ==
    LET order == <<"{", "}", "/", "^", "0", "1", "2", "3", "4", "5", "6", "7", "8", "9",
                   "a", "b", "c", "d", "e", "f", "g", "h", "i", "j", "k", "l", "m",
                   "n", "o", "p", "q", "r", "s", "t", "u", "v", "w", "x", "y", "z">>
    IN  IF \E k \in 1..Len(order) : order[k] = c
        THEN CHOOSE k \in 1..Len(order) : order[k] = c
        ELSE 0

\* a.localeCompare(b): negative, zero or positive
RECURSIVE localeCompare(_, _)
localeCompare(a, b) ==
    IF a = <<>> THEN (IF b = <<>> THEN 0 ELSE -1)
    ELSE IF b = <<>> THEN 1
    ELSE IF CollationRank(Head(a)) < CollationRank(Head(b)) THEN -1
    ELSE IF CollationRank(Head(a)) > CollationRank(Head(b)) THEN 1
    ELSE localeCompare(Tail(a), Tail(b))

\* advertised.sort((a, b) => a.name.localeCompare(b.name)); the names of the
\* entries differ, so the order they were pushed in does not show
RECURSIVE SortByName(_)
SortByName(entries) ==
    IF entries = {} THEN <<>>
    ELSE LET first == CHOOSE e \in entries :
                          \A o \in entries : localeCompare(e.name, o.name) <= 0
         IN  <<first>> \o SortByName(entries \ {first})

\* listRefsForAdvertisement: the resolvable branches, then the resolvable
\* tags, each annotated tag followed by its peeled entry; a throw of
\* listBranches or listTags ends the listing with what was pushed before it.
\* tagTarget is what git.readTag finds for a tag's oid: the object an
\* annotated tag names, or Absent when it throws (the oid is no tag object)
listRefsForAdvertisement(store, head, listing, tagTarget) ==
    LET branches == {r \in DOMAIN store : StartsWith(r, TxtHeadsPrefix)}
        tags == {r \in DOMAIN store : StartsWith(r, TxtTagsPrefix)}
        resolved(names) ==
            {[oid |-> resolveRefOrZero(store, head, r), name |-> r] :
                r \in {n \in names : resolveRefOrZero(store, head, n) # ZERO_OID}}
        peeled ==
            {[oid |-> tagTarget[1], name |-> e.name \o TxtPeeled] :
                e \in {t \in resolved(tags) : tagTarget # Absent /\ tagTarget[1] # t.oid}}
    IN  SortByName(IF listing = "branchesFail" THEN {}
                   ELSE IF listing = "tagsFail" THEN resolved(branches)
                   ELSE resolved(branches) \cup resolved(tags) \cup peeled)

\* ref lines that all carry the capabilities
AdvertisedLinesAllCaps(advertised, capabilities) ==
    IF advertised = <<>>
    THEN <<encodePktLine(ZERO_OID \o <<" ">> \o TxtCapabilitiesRef \o <<NUL>>
                         \o capabilities \o <<"\n">>).bytes>>
    ELSE [i \in 1..Len(advertised) |->
             encodePktLine(advertised[i].oid \o <<" ">> \o advertised[i].name
                           \o <<NUL>> \o capabilities \o <<"\n">>).bytes]

\* the ref lines of the advertisement; no line comes near the longest
\* pkt-line, so encodePktLine does not throw
AdvertisedLines(advertised, capabilities) ==
    IF advertised = <<>>
    THEN <<encodePktLine(ZERO_OID \o <<" ">> \o TxtCapabilitiesRef \o <<NUL>>
                         \o capabilities \o <<"\n">>).bytes>>
    ELSE [i \in 1..Len(advertised) |->
             IF i = 1
             THEN encodePktLine(advertised[i].oid \o <<" ">> \o advertised[i].name
                                \o <<NUL>> \o capabilities \o <<"\n">>).bytes
             ELSE encodePktLine(advertised[i].oid \o <<" ">> \o advertised[i].name
                                \o <<"\n">>).bytes]

\* getReceivePackAdvertisement, behind ensureGitRepoInitialized
getReceivePackAdvertisement(store, head, listing, tagTarget) ==
    LET serviceHeader == concatBytes(<<encodePktLine(TxtServiceHeader).bytes,
                                       encodePktFlush>>)
        listed == listRefsForAdvertisement(store, head, listing, tagTarget)
        headTarget == getHeadTargetRef(head)
        capabilities == capabilitiesFor(headTarget)
        headOid == resolveRefOrZero(store, head, TxtHEAD)
        advertised == (IF headOid # ZERO_OID
                       THEN <<[oid |-> headOid, name |-> TxtHEAD]>> ELSE <<>>) \o listed
    IN  concatBytes(<<serviceHeader>> \o AdvertisedLines(advertised, capabilities)
                    \o <<encodePktFlush>>)

\* a processPackfile that swallows the failure of persisting or indexing
processPackfileLenient(packLength, outcome, message) ==
    IF packLength > MAX_PACK_SIZE
    THEN [ok |-> FALSE, error |-> TxtPackTooLarge,
          packWritten |-> FALSE, indexPackCalled |-> FALSE]
    ELSE [ok |-> TRUE, error |-> <<>>,
          packWritten |-> outcome # "writeFails",
          indexPackCalled |-> outcome # "writeFails"]

\* a processPackfile whose size check is ">=" instead of ">"
processPackfileStrict(packLength, outcome, message) ==
    IF packLength >= MAX_PACK_SIZE
    THEN [ok |-> FALSE, error |-> TxtPackTooLarge,
          packWritten |-> FALSE, indexPackCalled |-> FALSE]
    ELSE IF outcome = "ok"
    THEN [ok |-> TRUE, error |-> <<>>, packWritten |-> TRUE, indexPackCalled |-> TRUE]
    ELSE [ok |-> FALSE,
          error |-> TxtErrorColon \o (IF message # <<>> THEN message
                                      ELSE TxtIndexPackFailed),
          packWritten |-> outcome = "indexFails",
          indexPackCalled |-> outcome = "indexFails"]

\* processPackfile.  outcome is what persisting and indexing the pack do:
\* "ok", "writeFails" (ensureDir or writeFile throws) or "indexFails"
\* (git.indexPack throws); message is the message of the error thrown.
processPackfile(packLength, outcome, message) ==
    IF packLength > MAX_PACK_SIZE
    THEN [ok |-> FALSE, error |-> TxtPackTooLarge,
          packWritten |-> FALSE, indexPackCalled |-> FALSE]
    ELSE IF outcome = "ok"
    THEN [ok |-> TRUE, error |-> <<>>, packWritten |-> TRUE, indexPackCalled |-> TRUE]
    ELSE [ok |-> FALSE,
          error |-> TxtErrorColon \o (IF message # <<>> THEN message
                                      ELSE TxtIndexPackFailed),
          packWritten |-> outcome = "indexFails",
          indexPackCalled |-> outcome = "indexFails"]

\* A head of receivePack that takes any four bytes behind the flush for a pack
RequestReadAnyTail(request, read) ==
    LET dataLength == Len(request.bytes) + request.extra
        commandsText == [i \in 1..Len(read.lines) |-> decodePktText(read.lines[i])]
    IN  [thrown |-> read.thrown,
         updates |-> IF read.thrown THEN <<>> ELSE parseRefUpdates(commandsText),
         remainingLength |-> dataLength - read.offset,
         hasPack |-> ~read.thrown /\ dataLength - read.offset >= 4]

\* The head of receivePack: the commands and the bytes behind the flush.
\* A request is [bytes, extra]: the bytes spelled out, then extra more bytes;
\* read is what readPktLinesUntilFlush(data, 0) returned.
RequestRead(request, read) ==
    LET dataLength == Len(request.bytes) + request.extra
        commandsText == [i \in 1..Len(read.lines) |-> decodePktText(read.lines[i])]
        remaining == Slice(request.bytes, read.offset, Len(request.bytes))
    IN  [thrown |-> read.thrown,
         updates |-> IF read.thrown THEN <<>> ELSE parseRefUpdates(commandsText),
         remainingLength |-> dataLength - read.offset,
         hasPack |-> /\ ~read.thrown
                     /\ dataLength - read.offset >= 4
                     /\ Len(remaining) >= 4
                     /\ SubSeq(remaining, 1, 4) = TxtPACK]

readRequest(request) ==
    RequestRead(request,
                readPktLinesUntilFlush(request.bytes,
                                       Len(request.bytes) + request.extra, 0))

\* unpackResult when the request carries no pack
NoPackResult ==
    [ok |-> TRUE, error |-> <<>>, packWritten |-> FALSE, indexPackCalled |-> FALSE]

(***************************************************************************)
(* Inputs of the receive-pack model.                                       *)
(***************************************************************************)
MaxCmds == 2     \* most commands in one push

OidA == [i \in 1..OidLen |-> "a"]
OidB == [i \in 1..OidLen |-> "b"]

RefMain == TxtRefsHeadsMain
RefDev == <<"r", "e", "f", "s", "/", "h", "e", "a", "d", "s", "/", "d", "e", "v">>
RefTag == <<"r", "e", "f", "s", "/", "t", "a", "g", "s", "/", "v", "1">>

CommandOldOids == {ZERO_OID, OidA}
CommandNewOids == {ZERO_OID, OidA, OidB}
Branches == {RefMain, RefDev}

\* every command on the two branches; a tag created and deleted; a command
\* on a name outside refs/
Commands ==
    {RefUpdate(o, n, r) : o \in CommandOldOids, n \in CommandNewOids, r \in Branches}
    \cup {RefUpdate(ZERO_OID, OidA, RefTag), RefUpdate(OidA, ZERO_OID, RefTag),
          RefUpdate(ZERO_OID, OidA, TxtHEAD)}

CommandLists == UNION {[1..n -> Commands] : n \in 0..MaxCmds}

\* how the listing of the refs ends, and what readTag finds behind a tag
ListOutcomes == {"ok", "branchesFail", "tagsFail"}
TagTargets == {Absent, <<OidA>>, <<OidB>>}

TxtCapabilities == <<" ", "r", "e", "p", "o", "r", "t", "-", "s", "t", "a", "t", "u", "s">>

\* a command as git send-pack writes it; the first one carries the capabilities
CommandLine(cmd, first) ==
    cmd.oldOid \o <<" ">> \o cmd.newOid \o <<" ">> \o cmd.ref
    \o (IF first THEN <<NUL>> \o TxtCapabilities ELSE <<>>) \o <<"\n">>

CommandSection(cmds) ==
    concatBytes([i \in 1..Len(cmds) |-> encodePktLine(CommandLine(cmds[i], i = 1)).bytes]
                \o <<encodePktFlush>>)

\* What follows the flush: nothing or a pack of 12 bytes; and, after at most
\* one command, three bytes and five bytes that are no signature, a pack of
\* exactly MAX_PACK_SIZE bytes, a pack of one byte more
Tails == {[bytes |-> <<>>, extra |-> 0],
          [bytes |-> TxtPACK, extra |-> 8]}
EdgeTails == {[bytes |-> <<"P", "A", "C">>, extra |-> 0],
              [bytes |-> <<"P", "A", "C", "X", "K">>, extra |-> 0],
              [bytes |-> TxtPACK, extra |-> MAX_PACK_SIZE - 4],
              [bytes |-> TxtPACK, extra |-> MAX_PACK_SIZE - 3]}

WellFormedRequests ==
    {[bytes |-> CommandSection(cmds) \o tail.bytes, extra |-> tail.extra,
      commands |-> cmds, wellFormed |-> TRUE] :
        cmds \in CommandLists, tail \in Tails}
    \cup {[bytes |-> CommandSection(cmds) \o tail.bytes, extra |-> tail.extra,
           commands |-> cmds, wellFormed |-> TRUE] :
        cmds \in {c \in CommandLists : Len(c) <= 1}, tail \in EdgeTails}

\* Bodies a client should not send: no flush at all, a command section cut
\* before its flush, a prefix that is no hex number, a line longer than the
\* body, the lengths 2 and 3, a command of two words
OneCommand == <<RefUpdate(ZERO_OID, OidA, RefMain)>>
MalformedBodies ==
    {<<>>,
     encodePktLine(CommandLine(OneCommand[1], TRUE)).bytes,
     <<"z", "z", "z", "z">>,
     <<"0", "0", "5", "0", "a", "b">>,
     <<"0", "0", "0", "3">>,
     <<"0", "0", "0", "2">> \o encodePktFlush,
     encodePktLine(ZERO_OID \o <<" ">> \o OidA \o <<"\n">>).bytes \o encodePktFlush}

MalformedRequests ==
    {[bytes |-> b, extra |-> 0, commands |-> <<>>, wellFormed |-> FALSE] :
        b \in MalformedBodies}

Requests == WellFormedRequests \cup MalformedRequests

PackOutcomes == {"ok", "writeFails", "indexFails"}
Messages == {<<>>, <<"E", "I", "O">>}

NoMessage == <<>>

(***************************************************************************)
(* receivePack as an action, statement by statement: the request runs to   *)
(* its end under the one-request-at-a-time guarantee of the host.  When    *)
(* reading the commands throws, nothing behind it runs (req carries no     *)
(* commands and no pack then).  Respond hands the response, or the         *)
(* exception, to the transport.                                            *)
(***************************************************************************)
\* previous is the record of the request answered just before this one, kept
\* where two requests in a row are compared, and empty otherwise
ReceivePackOf(requests, previous) ==
    /\ \E request \in requests :
       \E head0 \in {ensureGitRepoInitialized(gitDir, headFile)} :
       \E req \in {readRequest(request)} :
       \E packOutcome \in (IF req.hasPack /\ req.remainingLength <= MAX_PACK_SIZE
                           THEN PackOutcomes ELSE {"ok"}) :
       \E failAt \in (IF packOutcome = "ok" /\ ~req.thrown
                          /\ (req.hasPack => req.remainingLength <= MAX_PACK_SIZE)
                      THEN 0..Len(req.updates) ELSE {0}) :
       \E message \in (IF failAt # 0 \/ packOutcome # "ok"
                       THEN Messages ELSE {NoMessage}) :
       \E headWriteFails \in (IF packOutcome = "ok" /\ req.updates # <<>>
                              THEN BOOLEAN ELSE {FALSE}) :
       \E unpackResult \in {IF req.hasPack
                            THEN processPackfile(req.remainingLength, packOutcome, message)
                            ELSE NoPackResult} :
       \E rounds \in {IF unpackResult.ok
                      THEN updateRefs(refs, head0, req.updates, failAt, message)
                      ELSE <<>>} :
       \E refResults \in {IF unpackResult.ok
                          THEN [i \in 1..Len(rounds) |-> rounds[i].result]
                          ELSE [i \in 1..Len(req.updates) |->
                                   RefResult(req.updates[i].ref, "ng", TxtUnpackFailed)]} :
       \E store1 \in {IF rounds = <<>> THEN refs ELSE rounds[Len(rounds)].after} :
       \E headUpdate \in {IF unpackResult.ok
                          THEN maybeUpdateHeadAfterPush(store1, head0, refResults,
                                                        headWriteFails)
                          ELSE [head |-> head0, writeCalled |-> FALSE]} :
       \E report \in {buildReportStatus(unpackResult.ok, unpackResult.error,
                                         refResults)} :
          /\ headWriteFails => headUpdate.writeCalled
          /\ refs' = store1
          /\ headFile' = headUpdate.head
          /\ gitDir' = TRUE
          /\ push' = [phase |-> IF req.thrown \/ report.thrown THEN "threw" ELSE "done",
                      request |-> request,
                      packOutcome |-> packOutcome,
                      failAt |-> failAt,
                      message |-> message,
                      headWriteFails |-> headWriteFails,
                      updates |-> req.updates,
                      hasPack |-> req.hasPack,
                      packLength |-> IF req.hasPack THEN req.remainingLength ELSE 0,
                      unpack |-> unpackResult,
                      rounds |-> rounds,
                      results |-> refResults,
                      response |-> IF req.thrown \/ report.thrown THEN <<>>
                                   ELSE report.bytes,
                      refsBefore |-> refs,
                      headBefore |-> headFile,
                      gitDirBefore |-> gitDir,
                      previous |-> previous]
    /\ UNCHANGED <<fsVars, pkt, repo>>

\* a request arrives while none is being served
ReceivePack ==
    /\ push.phase = "idle"
    /\ ReceivePackOf(Requests, <<>>)

\* GET /info/refs?service=git-receive-pack: the advertisement is built from
\* the store as it stands and handed to the transport
Advertise ==
    /\ push.phase = "idle"
    /\ \E listing \in ListOutcomes, tagTarget \in TagTargets :
       \E head0 \in {ensureGitRepoInitialized(gitDir, headFile)} :
          /\ headFile' = head0
          /\ gitDir' = TRUE
          /\ push' = [phase |-> "advertised",
                      listing |-> listing,
                      tagTarget |-> tagTarget,
                      response |-> getReceivePackAdvertisement(refs, head0, listing,
                                                               tagTarget),
                      refsBefore |-> refs,
                      headBefore |-> headFile,
                      gitDirBefore |-> gitDir]
    /\ UNCHANGED <<refs, fsVars, pkt, repo>>

Respond ==
    /\ push.phase # "idle"
    /\ push' = NoPush
    /\ UNCHANGED <<refs, headFile, gitDir, fsVars, pkt, repo>>

RpInit ==
    /\ refs = <<>>
    /\ headFile = Absent
    /\ gitDir = FALSE
    /\ push = NoPush
    /\ pkt = NoPkt
    /\ repo = NoRepo
    /\ rows = {}
    /\ adapter = "do"
    /\ fsCall = NoCall

RpNext ==
    \/ ReceivePack
    \/ Advertise
    \/ Respond

\* The receive-pack engine on a fresh repository object
RpSpec == RpInit /\ [][RpNext]_vars

\* Pushes of one command on a branch, with or without a pack
RaceRequests ==
    {q \in WellFormedRequests :
        /\ Len(q.commands) = 1
        /\ q.commands[1].ref \in Branches
        /\ q.extra <= 8
        /\ q.bytes = CommandSection(q.commands) \o (IF q.extra = 8 THEN TxtPACK ELSE <<>>)}

\* One of two pushes that reach the repository object at about the same time:
\* the host runs them one after the other, the second as soon as the first
\* has been answered
RacePush ==
    /\ \/ push.phase = "idle"
       \/ push.phase = "done" /\ push.previous = <<>>
    /\ ReceivePackOf(RaceRequests, IF push.phase = "done" THEN <<push>> ELSE <<>>)

RaceNext ==
    \/ RacePush
    \/ Respond

\* Two pushes in a row under the one-request-at-a-time execution
RaceSpec == RpInit /\ [][RaceNext]_vars

(***************************************************************************)
(* The repository object: status, clone, gitFetch and the memoizing        *)
(* queries.  ServableRepoObject and ReadonlyRepoObject handle the status   *)
(* alike.  A call runs up to its next await in one step; the storage put   *)
(* of setStatus is taken to land when it is issued.                        *)
(***************************************************************************)
\* getLastCommit: the memoized answer if there is one; undefined (Absent)
\* unless the status is ready; else branch and newest commit of HEAD, which
\* it memoizes.  git.log throws where HEAD does not resolve.
getLastCommit(r, store, head) ==
    IF r.commitInfo # Absent
    THEN [repo |-> r, thrown |-> FALSE, value |-> r.commitInfo]
    ELSE IF r.status # "ready"
    THEN [repo |-> r, thrown |-> FALSE, value |-> Absent]
    ELSE IF resolveRefOrZero(store, head, TxtHEAD) = ZERO_OID
    THEN [repo |-> r, thrown |-> TRUE, value |-> Absent]
    ELSE LET info == <<[branch |-> head[1],
                        commit |-> resolveRefOrZero(store, head, TxtHEAD)]>>
         IN  [repo |-> [r EXCEPT !.commitInfo = info], thrown |-> FALSE, value |-> info]

\* setStatus: the status in memory and in storage, then getLastCommit for
\* the broadcast
setStatus(r, status, store, head) ==
    getLastCommit([r EXCEPT !.status = status, !.stored = status], store, head).repo

\* listFiles: the memoized list if there is one, else the tree of the commit
\* HEAD resolves to (named by that commit here), which it memoizes; git.walk
\* throws where HEAD does not resolve
listFiles(r, store, head) ==
    IF r.files # Absent
    THEN [repo |-> r, thrown |-> FALSE, value |-> r.files]
    ELSE IF resolveRefOrZero(store, head, TxtHEAD) = ZERO_OID
    THEN [repo |-> r, thrown |-> TRUE, value |-> Absent]
    ELSE LET files == <<[commit |-> resolveRefOrZero(store, head, TxtHEAD)]>>
         IN  [repo |-> [r EXCEPT !.files = files], thrown |-> FALSE, value |-> files]

\* A clone that also takes effect while another clone is under way
CloneCheckingLate ==
    /\ push.phase = "idle"
    /\ \E t \in DOMAIN repo.tasks :
          /\ repo.tasks[t] = "idle"
          /\ repo.status \in {"new", "cloning"}
          /\ repo' = [repo EXCEPT !.status = "cloning", !.stored = "cloning",
                                  !.tasks[t] = "cloneStatus"]
    /\ UNCHANGED <<refs, headFile, gitDir, push, fsVars, pkt>>

\* clone() up to "await this.setStatus(...)": without effect unless the
\* status is new
Clone ==
    /\ push.phase = "idle"
    /\ \E t \in DOMAIN repo.tasks :
          /\ repo.tasks[t] = "idle"
          /\ repo' = IF repo.status # "new" THEN repo
                     ELSE [repo EXCEPT !.status = "cloning", !.stored = "cloning",
                                       !.tasks[t] = "cloneStatus"]
    /\ UNCHANGED <<refs, headFile, gitDir, push, fsVars, pkt>>

\* setStatus("cloning") has resolved: the git operations of the clone begin
CloneRuns ==
    /\ push.phase = "idle"
    /\ \E t \in DOMAIN repo.tasks :
          /\ repo.tasks[t] = "cloneStatus"
          /\ repo.clones < 2
          /\ repo' = [getLastCommit(repo, refs, headFile).repo
                         EXCEPT !.tasks[t] = "cloneGit", !.clones = @ + 1]
    /\ UNCHANGED <<refs, headFile, gitDir, push, fsVars, pkt>>

\* The git operations of the clone end.  Done, they leave a commit (OidA) on
\* the branch of HEAD and setStatus("ready") runs; failed, the catch block
\* returns (ReadonlyRepoObject lets the exception go) and the status stays.
CloneEnds ==
    /\ push.phase = "idle"
    /\ \E t \in DOMAIN repo.tasks, ok \in BOOLEAN :
       \E head0 \in {ensureGitRepoInitialized(gitDir, headFile)} :
       \E store1 \in {writeRef(refs, getHeadTargetRef(head0), OidA)} :
          /\ repo.tasks[t] = "cloneGit"
          /\ IF ok
             THEN /\ refs' = store1
                  /\ headFile' = head0
                  /\ gitDir' = TRUE
                  /\ repo' = setStatus([repo EXCEPT !.tasks[t] = "idle"], "ready",
                                       store1, head0)
             ELSE /\ repo' = [repo EXCEPT !.tasks[t] = "idle"]
                  /\ UNCHANGED <<refs, headFile, gitDir>>
    /\ UNCHANGED <<push, fsVars, pkt>>

\* gitFetch() up to "await git.fetch(...)": without effect unless the status
\* is ready; setStatus("fetching") is not awaited
Fetch ==
    /\ push.phase = "idle"
    /\ \E t \in DOMAIN repo.tasks :
          /\ repo.tasks[t] = "idle"
          /\ repo' = IF repo.status # "ready" THEN repo
                     ELSE [setStatus(repo, "fetching", refs, headFile)
                              EXCEPT !.tasks[t] = "fetchGit"]
    /\ UNCHANGED <<refs, headFile, gitDir, push, fsVars, pkt>>

\* git.fetch ends: done, it has moved remote-tracking refs only and
\* setStatus("ready") runs; failed, its exception leaves gitFetch
FetchEnds ==
    /\ push.phase = "idle"
    /\ \E t \in DOMAIN repo.tasks, ok \in BOOLEAN :
          /\ repo.tasks[t] = "fetchGit"
          /\ repo' = IF ok
                     THEN setStatus([repo EXCEPT !.tasks[t] = "idle"], "ready",
                                    refs, headFile)
                     ELSE [repo EXCEPT !.tasks[t] = "idle"]
    /\ UNCHANGED <<refs, headFile, gitDir, push, fsVars, pkt>>

ListFiles ==
    /\ push.phase = "idle"
    /\ \E out \in {listFiles(repo, refs, headFile)} :
          repo' = [out.repo EXCEPT !.answer =
                      <<[op |-> "listFiles", thrown |-> out.thrown, value |-> out.value,
                         head |-> resolveRefOrZero(refs, headFile, TxtHEAD)]>>]
    /\ UNCHANGED <<refs, headFile, gitDir, push, fsVars, pkt>>

GetLastCommit ==
    /\ push.phase = "idle"
    /\ \E out \in {getLastCommit(repo, refs, headFile)} :
          repo' = [out.repo EXCEPT !.answer =
                      <<[op |-> "getLastCommit", thrown |-> out.thrown, value |-> out.value,
                         head |-> resolveRefOrZero(refs, headFile, TxtHEAD)]>>]
    /\ UNCHANGED <<refs, headFile, gitDir, push, fsVars, pkt>>

\* a push of one command on main without a pack
RepoPush ==
    /\ push.phase = "idle"
    /\ ReceivePackOf({q \in RaceRequests :
                         q.extra = 0 /\ q.commands[1].ref = RefMain}, <<>>)

RepoNext ==
    \/ Clone
    \/ CloneRuns
    \/ CloneEnds
    \/ Fetch
    \/ FetchEnds
    \/ ListFiles
    \/ GetLastCommit
    \/ RepoPush
    \/ Respond

\* The life of a repository object from its construction
RepoSpec == RpInit /\ [][RepoNext]_vars

\* The same where a call that can go on does go on, whatever pushes arrive
\* meanwhile: a push is answered, an await resolves, a git operation ends
RepoFairSpec ==
    /\ RepoSpec
    /\ WF_vars(Respond)
    /\ SF_vars(CloneRuns) /\ SF_vars(CloneEnds) /\ SF_vars(FetchEnds)

(***************************************************************************)
(* Properties of the chunk object store (FsSpec).                          *)
(***************************************************************************)
\* the rows stored under the path of the call just made
RowsOfCall == {r \in rows : r.path = normalize(fsCall.path)}

\* the parent of a path is valid: it is the root or an existing directory
ParentIsDirectory(db, dbPath) ==
    \/ IsRootPath(dirname(dbPath))
    \/ \E r \in db : r.path = dirname(dbPath) /\ r.chunk_index = 0 /\ r.type = "directory"

\* C1: for every byte sequence b and every path whose parent is valid (and
\* that is no directory), write(path, b) succeeds and read(path) then returns
\* exactly b: no byte lost, duplicated or reordered by the chunking.
C1_WriteThenRead ==
    fsCall.op = "writeFile" =>
        /\ (/\ ParentIsDirectory(rows, normalize(fsCall.path))
            /\ ~\E r \in RowsOfCall : r.type = "directory")
           => fsCall.code = "OK"
        /\ fsCall.code = "OK" =>
              /\ _readFile(adapter, rows, fsCall.path).code = "OK"
              /\ _readFile(adapter, rows, fsCall.path).value = fsCall.data

\* a buffer of MaxLen bytes written below a directory and stored as three
\* chunks or more
C1_Witness ==
    /\ fsCall.op = "writeFile"
    /\ fsCall.code = "OK"
    /\ Len(fsCall.data) = MaxLen
    /\ ~IsRootPath(dirname(normalize(fsCall.path)))
    /\ Cardinality(RowsOfCall) >= 3

\* C2: stat(path) of a file reports the file's total_size, the full length
\* of the content last written, also when the file is stored as several chunks.
C2_StatReportsTotalSize ==
    (/\ fsCall.op \in {"stat", "lstat"}
     /\ fsCall.code = "OK"
     /\ fsCall.value.isFile)
    => \A r \in RowsOfCall : r.chunk_index = 0 => fsCall.value.size = r.total_size

\* C10: rmdir(target) on an existing directory succeeds if and only if no
\* row's path is strictly prefixed by the literal string target + "/";
\* otherwise it fails ENOTEMPTY.
C10_RmdirLiteralPrefix ==
    (fsCall.op = "rmdir" /\ fsCall.code \in {"OK", "ENOTEMPTY"})
    => (fsCall.code = "OK"
        <=> ~\E r \in rows :
                /\ StartsWith(r.path, DirPrefix(normalize(fsCall.path)))
                /\ Len(r.path) > Len(DirPrefix(normalize(fsCall.path))))

\* the rows of the entries whose parent is the path of the call just made
ChildrenOfCall ==
    {r \in rows : /\ r.chunk_index = 0
                  /\ r.path # normalize(fsCall.path)
                  /\ dirname(r.path) = normalize(fsCall.path)}

\* C11: list(path) on an existing directory returns exactly the basenames of
\* the live paths whose parent is path, each once; it fails ENOENT when path
\* is absent and ENOTDIR when path is a file.
C11_ListImmediateChildren ==
    fsCall.op = "readdir" =>
        /\ fsCall.code = "OK" =>
              /\ Len(fsCall.value) = Cardinality(ChildrenOfCall)
              /\ {fsCall.value[i] : i \in 1..Len(fsCall.value)}
                     = {basename(r.path) : r \in ChildrenOfCall}
        /\ fsCall.code = "ENOENT" <=>
              (~IsRootPath(normalize(fsCall.path)) /\ RowsOfCall = {})
        /\ fsCall.code = "ENOTDIR" <=> \E r \in RowsOfCall : r.type = "file"

\* C12: over either adapter a one() that matched no row is classified as
\* absence: stat, read, list, removeFile and removeDir of a path without a
\* chunk 0 row fail ENOENT, never EIO, and mkdir and write of a path that does
\* not exist yet under a valid parent succeed.
C12_AbsenceIsENOENT ==
    /\ (/\ fsCall.op \in {"lstat", "stat", "readFile", "readdir", "unlink", "rmdir"}
        /\ ~IsRootPath(normalize(fsCall.path))
        /\ SelectMeta(rows, normalize(fsCall.path)) = {})
       => fsCall.code = "ENOENT"
    /\ (/\ fsCall.op \in {"mkdir", "writeFile"}
        /\ fsCall.code # "OK"
        /\ ParentIsDirectory(rows, normalize(fsCall.path)))
       => RowsOfCall # {}

\* C13: write fails ENOENT exactly when the parent has no row, ENOTDIR exactly
\* when the parent is not a directory, and EISDIR exactly when the parent is
\* valid and the path is an existing directory; a failing write changes no row.
C13_WriteFailures ==
    [][fsCall'.op = "writeFile" =>
          \A dbPath \in {normalize(fsCall'.path)} :
          \A parentRows \in {SelectMeta(rows, dirname(dbPath))} :
              /\ fsCall'.code = "ENOENT"
                    <=> (~IsRootPath(dirname(dbPath)) /\ parentRows = {})
              /\ fsCall'.code = "ENOTDIR"
                    <=> (/\ ~IsRootPath(dirname(dbPath))
                         /\ \E r \in parentRows : r.type # "directory")
              /\ fsCall'.code = "EISDIR"
                    <=> (/\ ParentIsDirectory(rows, dbPath)
                         /\ \E r \in SelectMeta(rows, dbPath) : r.type = "directory")
              /\ fsCall'.code \in {"OK", "ENOENT", "ENOTDIR", "EISDIR"}
              /\ fsCall'.code # "OK" => rows' = rows]_vars

\* a write below a file was refused while the store holds a chunked file
C13_Witness ==
    /\ fsCall.op = "writeFile"
    /\ fsCall.code = "ENOTDIR"
    /\ \E r \in rows : r.path = dirname(normalize(fsCall.path)) /\ r.chunk_index > 0

\* C14: mkdir fails EEXIST whenever the path exists, ENOENT when the parent is
\* absent and ENOTDIR when the parent is a file; otherwise it inserts exactly
\* one row (chunk_index 0, type directory, content null, total_size 0), after
\* which stat(path) reports a directory and list(path) returns the empty list.
C14_MkdirOutcome ==
    [][fsCall'.op = "mkdir" =>
          \A dbPath \in {normalize(fsCall'.path)} :
          \A parentRows \in {SelectMeta(rows, dirname(dbPath))} :
              /\ fsCall'.code = "EEXIST" <=> SelectMeta(rows, dbPath) # {}
              /\ fsCall'.code = "ENOENT"
                    <=> (/\ SelectMeta(rows, dbPath) = {}
                         /\ ~IsRootPath(dirname(dbPath))
                         /\ parentRows = {})
              /\ fsCall'.code = "ENOTDIR"
                    <=> (/\ SelectMeta(rows, dbPath) = {}
                         /\ ~IsRootPath(dirname(dbPath))
                         /\ \E r \in parentRows : r.type # "directory")
              /\ fsCall'.code \in {"OK", "EEXIST", "ENOENT", "ENOTDIR"}
              /\ fsCall'.code # "OK" => rows' = rows
              /\ fsCall'.code = "OK" =>
                    /\ rows \subseteq rows'
                    /\ Cardinality(rows' \ rows) = 1
                    /\ \A r \in rows' \ rows :
                          /\ r.path = dbPath
                          /\ r.chunk_index = 0
                          /\ r.type = "directory"
                          /\ r.content = Null
                          /\ r.total_size = 0
                    /\ _stat(adapter, rows', fsCall'.path).code = "OK"
                    /\ _stat(adapter, rows', fsCall'.path).value.isDirectory
                    /\ _readdir(adapter, rows', fsCall'.path).code = "OK"
                    /\ _readdir(adapter, rows', fsCall'.path).value = <<>>]_vars

\* C15: removeFile on a file deletes every row of the path, the chunks above
\* 0 included, after which stat and a second removeFile fail ENOENT; on a
\* directory it fails EPERM and the directory and its contents stay.
C15_UnlinkOutcome ==
    [][fsCall'.op = "unlink" =>
          \A dbPath \in {normalize(fsCall'.path)} :
              /\ (\E r \in SelectMeta(rows, dbPath) : r.type = "file") =>
                    /\ fsCall'.code = "OK"
                    /\ rows' = {r \in rows : r.path # dbPath}
                    /\ _stat(adapter, rows', fsCall'.path).code = "ENOENT"
                    /\ _unlink(adapter, rows', fsCall'.path).code = "ENOENT"
              /\ (\E r \in SelectMeta(rows, dbPath) : r.type = "directory") =>
                    /\ fsCall'.code = "EPERM"
                    /\ rows' = rows]_vars

\* a file below a directory was removed and the directory is still there
C15_Witness ==
    /\ fsCall.op = "unlink"
    /\ fsCall.code = "OK"
    /\ RowsOfCall = {}
    /\ \E r \in rows : r.path = dirname(normalize(fsCall.path))

\* rows with the path left out, to compare the rows of two paths
WithoutPath(sel) == {[r EXCEPT !.path = <<>>] : r \in sel}

C17_ChunkRows ==
    (fsCall.op = "writeFile" /\ fsCall.code = "OK") =>
        \A n \in {IF Len(fsCall.data) = 0 THEN 1 ELSE CeilDivChunk(Len(fsCall.data))} :
            /\ Cardinality(RowsOfCall) = n
            /\ {r.chunk_index : r \in RowsOfCall} = 0..(n - 1)
            /\ \A r \in RowsOfCall :
                  /\ r.content # Null
                  /\ Len(r.content[1]) * CHUNK_SIZE_DEN <= CHUNK_SIZE_NUM

\* the paths whose chunk 0 row is a file
StoredFiles == {r.path : r \in {q \in rows : q.chunk_index = 0 /\ q.type = "file"}}

\* C18: in every state the completed operations reach, all rows of a file
\* carry the same total_size, mode and mtime, and total_size is the sum of the
\* content lengths of the rows taken in chunk_index order.
C18_FileRowsAgree ==
    \A p \in StoredFiles :
    \A chunks \in {{r \in rows : r.path = p}} :
        /\ \A r \in chunks : \A q \in chunks :
              /\ r.total_size = q.total_size
              /\ r.mode = q.mode
              /\ r.mtime = q.mtime
        /\ \A r \in chunks : r.total_size = Len(_readFile(adapter, rows, p).value)

\* a file of three chunks, written with a mode of its own at a later time
\* than its directory was made
C18_Witness ==
    /\ fsCall.op = "none"
    /\ \E p \in StoredFiles :
          /\ Cardinality({r \in rows : r.path = p}) = 3
          /\ \E r \in rows : \E u \in rows :
                /\ r.path = p
                /\ u.path = dirname(p)
                /\ r.mode # DefaultFileMode
                /\ r.mtime # u.mtime

\* C19: in every reachable state a path that has a row has a chunk 0 row, a
\* directory has exactly one row (chunk_index 0, content null, total_size 0),
\* and rows of chunk_index above 0 exist only for paths whose chunk 0 row is
\* a file.
C19_RowShape ==
    \A p \in {r.path : r \in rows} :
    \A meta \in {SelectMeta(rows, p)} :
    \A chunks \in {{r \in rows : r.path = p}} :
        /\ Cardinality(meta) = 1
        /\ (\E r \in meta : r.type = "directory") =>
              /\ chunks = meta
              /\ \A r \in meta : r.content = Null /\ r.total_size = 0
        /\ (\E r \in chunks : r.chunk_index > 0) => \A r \in meta : r.type = "file"

\* a directory was removed while a chunked file and its directory are stored
C19_Witness ==
    /\ fsCall.op = "rmdir"
    /\ fsCall.code = "OK"
    /\ \E r \in rows : r.chunk_index > 0
    /\ \E r \in rows : r.type = "directory"

\* the live paths that contain no separator
TopLevelPaths ==
    {r.path : r \in {q \in rows : /\ q.chunk_index = 0
                                  /\ \A i \in 1..Len(q.path) : q.path[i] # Sep}}

\* C20: the root "." is implicit and permanent: in every reachable state, the
\* empty store included, list(".") succeeds and returns exactly the live paths
\* that contain no "/", and write and mkdir of a top-level path succeed
\* although no row is stored for ".".
C20_ImplicitRoot ==
    /\ \A r \in rows : ~IsRootPath(r.path)
    /\ \A listed \in {_readdir(adapter, rows, Dot)} :
          /\ listed.code = "OK"
          /\ Len(listed.value) = Cardinality(TopLevelPaths)
          /\ {listed.value[i] : i \in 1..Len(listed.value)} = TopLevelPaths
    /\ (fsCall.op = "readdir" /\ IsRootPath(normalize(fsCall.path))) =>
          fsCall.code = "OK"
    /\ (fsCall.op = "mkdir" /\ IsRootPath(dirname(normalize(fsCall.path)))) =>
          \/ fsCall.code = "OK"
          \/ fsCall.code = "EEXIST" /\ RowsOfCall # {}
    /\ (fsCall.op = "writeFile" /\ IsRootPath(dirname(normalize(fsCall.path)))) =>
          \/ fsCall.code = "OK"
          \/ fsCall.code = "EISDIR" /\ \E r \in RowsOfCall : r.type = "directory"

\* the root was listed while it holds two entries and a nested one
C20_Witness ==
    /\ fsCall.op = "readdir"
    /\ fsCall.path = Dot
    /\ fsCall.code = "OK"
    /\ Len(fsCall.value) = 2
    /\ \E r \in rows : \E i \in 1..Len(r.path) : r.path[i] = Sep

\* C31: a successful writeFile, mkdir, unlink or rmdir on a path changes the
\* rows of that path only: every row of every other path is afterwards exactly
\* what it was (content, type, mode, mtime, total_size, chunk index), and rmdir
\* takes away nothing but the directory's own row of chunk_index 0.
C31_OtherPathsUntouched ==
    [][(/\ fsCall'.op \in {"writeFile", "mkdir", "unlink", "rmdir"}
        /\ fsCall'.code = "OK") =>
          \A dbPath \in {normalize(fsCall'.path)} :
              /\ {r \in rows' : r.path # dbPath} = {r \in rows : r.path # dbPath}
              /\ fsCall'.op = "rmdir" =>
                    /\ rows' \subseteq rows
                    /\ rows \ rows' = {r \in rows : r.path = dbPath /\ r.chunk_index = 0}
                    /\ Cardinality(rows \ rows') = 1]_vars

\* a directory was made below another one whose row carries an earlier time,
\* next to a third entry
C31_Witness ==
    /\ fsCall.op = "mkdir"
    /\ fsCall.code = "OK"
    /\ ~IsRootPath(dirname(normalize(fsCall.path)))
    /\ \E own \in RowsOfCall : \E parent \in rows :
          /\ parent.path = dirname(normalize(fsCall.path))
          /\ parent.mtime # own.mtime
    /\ Cardinality({r.path : r \in rows}) >= 3

\* The rows of index 0..k of the rows a complete write of the call's data
\* creates, for the mode and time the rows carry.
IsPrefixOfWritten(sel, data) ==
    \E m \in {r.mode : r \in sel} : \E t \in {r.mtime : r \in sel} :
    \E k \in 0..Len(data) :
        WithoutPath(sel)
            = {r \in WithoutPath(_writeFile(adapter, {}, <<"f">>, data, m, t).rows) :
                  r.chunk_index <= k}

\* C32 as stated: wherever between two of its store calls a write is cut
\* short, the rows of the path are none, or the rows of index 0..k of the new
\* content.
C32_NoneOrNewPrefix ==
    [][fsCall'.code = "CRASH" =>
          \A sel \in {{r \in rows' : r.path = normalize(fsCall'.path)}} :
              sel = {} \/ IsPrefixOfWritten(sel, fsCall'.data)]_vars

\* C32: a write cut short between two of its store calls leaves the rows of
\* the path in one of three shapes.  Before the DELETE has run they are the
\* rows the path had, untouched.  From the DELETE on they are none, or the rows
\* of index 0..k of the new content and nothing else: no old chunk next to a
\* new one, no row of an index above 0 without the row of index 0.  The rows
\* of every other path stay as they were.
C32_InterruptedWrite ==
    [][fsCall'.code = "CRASH" =>
          \A dbPath \in {normalize(fsCall'.path)} :
          \A sel \in {{r \in rows' : r.path = dbPath}} :
          \A selects \in {IF IsRootPath(dirname(dbPath)) THEN 1 ELSE 2} :
              /\ {r \in rows' : r.path # dbPath} = {r \in rows : r.path # dbPath}
              /\ fsCall'.value[1] <= selects => rows' = rows
              /\ fsCall'.value[1] = selects + 1 => sel = {}
              /\ fsCall'.value[1] > selects + 1 =>
                    /\ IsPrefixOfWritten(sel, fsCall'.data)
                    /\ {r.chunk_index : r \in sel} = 0..(fsCall'.value[1] - selects - 2)
                    /\ Cardinality(sel) = fsCall'.value[1] - selects - 1]_vars

\* a write of four bytes below a directory was cut short behind its second
\* INSERT: two of three chunks are stored, total_size says four bytes
C32_Witness ==
    /\ fsCall.code = "CRASH"
    /\ fsCall.value = <<5>>
    /\ ~IsRootPath(dirname(normalize(fsCall.path)))
    /\ Len(fsCall.data) = 4
    /\ {r.chunk_index : r \in RowsOfCall} = {0, 1}
    /\ \A r \in RowsOfCall : r.total_size = 4

\* C34: in every store reached from the empty one by the public operations,
\* every row whose path is not a top-level one has a parent path that holds a
\* row of chunk_index 0 of type directory: nothing lies below a missing path
\* or below a file.
C34_NoOrphans ==
    \A r \in rows :
        ~IsRootPath(dirname(r.path)) =>
            \E q \in rows : /\ q.path = dirname(r.path)
                             /\ q.chunk_index = 0
                             /\ q.type = "directory"

\* rmdir and unlink of a directory that holds a directory with a file in it
\* were refused; all three entries are live
C34_Witness ==
    /\ fsCall.op \in {"rmdir", "unlink"}
    /\ fsCall.code \in {"ENOTEMPTY", "EPERM"}
    /\ normalize(fsCall.path) = <<"d">>
    /\ {r.path : r \in rows} = {<<"d">>, <<"d", "/", "x">>, <<"d", "/", "x", "/", "y">>}
    /\ \E r \in rows : r.path = <<"d", "/", "x", "/", "y">> /\ r.type = "file"

\* C36: an operation that ends with an error code leaves every row of the
\* store as it was; lstat, stat, readFile, readdir and readlink leave it as it
\* was also when they succeed; readlink always fails with EINVAL and symlink
\* with EPERM.
C36_FailuresChangeNothing ==
    [][fsCall'.op # "none" =>
          /\ fsCall'.code # "OK" => rows' = rows
          /\ fsCall'.op \in {"lstat", "stat", "readFile", "readdir", "readlink"} =>
                rows' = rows
          /\ fsCall'.op = "readlink" => fsCall'.code = "EINVAL"
          /\ fsCall'.op = "symlink" => fsCall'.code = "EPERM"]_vars

\* a write to the path of a directory that holds a file was refused
C36_Witness ==
    /\ fsCall.op = "writeFile"
    /\ fsCall.code = "EISDIR"
    /\ \E r \in rows : r.type = "file" /\ dirname(r.path) = normalize(fsCall.path)
    /\ \E r \in RowsOfCall : r.type = "directory"

\* C21: a store failure other than row absence raised during a filesystem
\* operation is never swallowed and reaches the caller as an error whose code
\* is EIO, whatever properties the store's error carries.
C21_StoreFailureIsEIO ==
    fsCall.op # "none" => fsCall.code = "EIO"

(***************************************************************************)
(* Properties of the receive-pack engine (RpSpec).                         *)
(***************************************************************************)
\* the pkt-lines of the response
ReportUnits == parsePktLines(push.response, Len(push.response), 0).units

\* the commands the client sent
Sent == push.request.commands

\* HEAD as the request found it once the repository was initialized
Head0 == ensureGitRepoInitialized(push.gitDirBefore, push.headBefore)

NgLine(ref, reason) == TxtNg \o ref \o <<" ">> \o reason \o <<"\n">>
OkLine(ref) == TxtOk \o ref \o <<"\n">>

\* the store a round found, by the rounds before it
StoreBefore(i) == IF i = 1 THEN push.refsBefore ELSE push.rounds[i - 1].after

\* the oid a name of the store resolves to
OidOf(store, ref) == IF ref \in DOMAIN store THEN store[ref] ELSE ZERO_OID

\* C3 as stated: when unpack succeeded, a command whose oldOid differs from
\* the oid its ref resolves to (all-zero when it does not resolve) is
\* reported "ng <ref> non-fast-forward" and leaves the store alone.
C3_MismatchIsNonFastForward ==
    (push.phase = "done" /\ push.unpack.ok) =>
        \A units \in {ReportUnits} : \A i \in 1..Len(Sent) :
            Sent[i].oldOid # resolveRefOrZero(StoreBefore(i), Head0, Sent[i].ref)
            => /\ units[i + 1].data = NgLine(Sent[i].ref, TxtNonFastForward)
               /\ push.rounds[i].after = StoreBefore(i)

\* C3, for the names the engine accepts: when unpack succeeded, a command on a
\* name under refs/ whose oldOid differs from the oid the ref has when its
\* turn comes is reported "ng <ref> non-fast-forward" and leaves the store
\* alone, whatever the other commands of the request do.
C3_MismatchUnderRefs ==
    (push.phase = "done" /\ push.unpack.ok) =>
        \A units \in {ReportUnits} : \A i \in 1..Len(Sent) :
            (/\ StartsWith(Sent[i].ref, TxtRefsPrefix)
             /\ Sent[i].oldOid # OidOf(StoreBefore(i), Sent[i].ref))
            => /\ units[i + 1].data = NgLine(Sent[i].ref, TxtNonFastForward)
               /\ push.rounds[i].after = StoreBefore(i)
               /\ (i = Len(Sent) => refs = StoreBefore(i))

\* a stale command on a branch, followed by a command that is accepted
C3_Witness ==
    /\ push.phase = "done"
    /\ push.unpack.ok
    /\ Len(Sent) = 2
    /\ Sent[1].ref = RefMain
    /\ Sent[1].oldOid # OidOf(push.refsBefore, RefMain)
    /\ push.results[1].status = "ng"
    /\ push.results[2].status = "ok"
    /\ refs # push.refsBefore

\* C4: the response is one unpack line, then one "ok <ref>" or
\* "ng <ref> <reason>" line per command sent, in the order sent, then a
\* flush, and nothing else.
C4_ReportShape ==
    push.phase = "done" => \A units \in {ReportUnits} :
        /\ Len(units) = Len(Sent) + 2
        /\ units[1].type = "data"
        /\ \/ units[1].data = TxtUnpackOk
           \/ /\ StartsWith(units[1].data, TxtUnpack)
              /\ EndsWith(units[1].data, <<"\n">>)
              /\ Len(units[1].data) > Len(TxtUnpack) + 1
        /\ \A i \in 1..Len(Sent) :
              /\ units[i + 1].type = "data"
              /\ \/ units[i + 1].data = OkLine(Sent[i].ref)
                 \/ /\ StartsWith(units[i + 1].data, TxtNg \o Sent[i].ref \o <<" ">>)
                    /\ EndsWith(units[i + 1].data, <<"\n">>)
                    /\ Len(units[i + 1].data) > Len(Sent[i].ref) + 5
        /\ units[Len(Sent) + 2].type = "flush"
        /\ units[Len(Sent) + 2].nextOffset = Len(push.response)

\* two commands sent, the first accepted and the second refused
C4_Witness ==
    /\ push.phase = "done"
    /\ Len(Sent) = 2
    /\ ReportUnits[2].data = OkLine(Sent[1].ref)
    /\ StartsWith(ReportUnits[3].data, TxtNg \o Sent[2].ref)

\* C5: receivePack never lets an exception escape to the transport: every
\* request body gets a report.
C5_NoExceptionEscapes == push.phase # "threw"

\* C6: when persisting or indexing a pack that is present fails, the unpack
\* line reports the failure, every command sent is reported
\* "ng <ref> unpack failed", and neither a ref nor HEAD changes.
C6_UnpackFailureFailsAll ==
    (/\ push.phase = "done"
     /\ push.hasPack
     /\ push.packLength <= MAX_PACK_SIZE
     /\ push.packOutcome # "ok")
    => \A units \in {ReportUnits} :
       /\ StartsWith(units[1].data, TxtUnpack \o TxtErrorColon)
       /\ units[1].data # TxtUnpackOk
       /\ \A i \in 1..Len(Sent) :
             units[i + 1].data = NgLine(Sent[i].ref, TxtUnpackFailed)
       /\ refs = push.refsBefore
       /\ getHeadTargetRef(headFile) = getHeadTargetRef(push.headBefore)

\* indexing fails under two commands of which the first is valid on its own
C6_Witness ==
    /\ push.phase = "done"
    /\ push.hasPack
    /\ push.packOutcome = "indexFails"
    /\ Len(Sent) = 2
    /\ StartsWith(Sent[1].ref, TxtRefsPrefix)
    /\ Sent[1].oldOid = OidOf(push.refsBefore, Sent[1].ref)
    /\ Sent[1].newOid # Sent[1].oldOid
    /\ push.refsBefore # <<>>

\* C7: a pack larger than MAX_PACK_SIZE is neither persisted nor indexed, the
\* unpack line reports an error, every command sent is reported
\* "ng <ref> unpack failed" and no ref update is attempted; a pack of exactly
\* MAX_PACK_SIZE bytes is not refused for its size.
C7_PackSizeCeiling ==
    (push.phase = "done" /\ push.hasPack) => \A units \in {ReportUnits} :
        /\ push.packLength > MAX_PACK_SIZE =>
              /\ ~push.unpack.packWritten
              /\ ~push.unpack.indexPackCalled
              /\ units[1].data = TxtUnpack \o TxtPackTooLarge \o <<"\n">>
              /\ \A i \in 1..Len(Sent) :
                    units[i + 1].data = NgLine(Sent[i].ref, TxtUnpackFailed)
              /\ push.rounds = <<>>
              /\ refs = push.refsBefore
        /\ push.packLength = MAX_PACK_SIZE =>
              /\ push.unpack.error # TxtPackTooLarge
              /\ push.packOutcome = "ok" =>
                    (push.unpack.ok /\ push.unpack.packWritten
                     /\ units[1].data = TxtUnpackOk)

\* a pack of MAX_PACK_SIZE + 1 bytes under a command that is valid on its own
C7_Witness ==
    /\ push.phase = "done"
    /\ push.hasPack
    /\ push.packLength = MAX_PACK_SIZE + 1
    /\ Len(Sent) = 1
    /\ Sent[1].ref = RefMain
    /\ Sent[1].oldOid = OidOf(push.refsBefore, RefMain)
    /\ Sent[1].newOid # ZERO_OID

\* what the report says of a command, by what the round did
RoundAccepted(i) ==
    /\ StartsWith(Sent[i].ref, TxtRefsPrefix)
    /\ Sent[i].oldOid = OidOf(StoreBefore(i), Sent[i].ref)

\* C8: when unpack succeeded or no pack was sent, the commands are applied
\* one at a time in input order, each on the store the commands before it
\* left: an accepted command deletes its ref when newOid is all-zero and sets
\* it to newOid otherwise and is reported ok; a store failure is reported ng
\* with its reason; a refused or failed command changes nothing and stops
\* nothing behind it.
C8_CommandsInOrderIndependently ==
    (push.phase = "done" /\ push.unpack.ok) => \A units \in {ReportUnits} :
        /\ Len(push.rounds) = Len(Sent)
        /\ refs = IF Sent = <<>> THEN push.refsBefore ELSE push.rounds[Len(Sent)].after
        /\ \A i \in 1..Len(Sent) :
              LET before == StoreBefore(i)
                  after == push.rounds[i].after
                  cmd == Sent[i]
              IN  /\ push.rounds[i].before = before
                  /\ IF RoundAccepted(i) /\ push.failAt # i
                    THEN /\ units[i + 1].data = OkLine(cmd.ref)
                         /\ DOMAIN after = IF cmd.newOid = ZERO_OID
                                           THEN DOMAIN before \ {cmd.ref}
                                           ELSE DOMAIN before \cup {cmd.ref}
                         /\ \A r \in DOMAIN after :
                               after[r] = IF r = cmd.ref THEN cmd.newOid ELSE before[r]
                    ELSE /\ after = before
                         /\ StartsWith(units[i + 1].data, TxtNg \o cmd.ref \o <<" ">>)
                         /\ RoundAccepted(i) =>
                               units[i + 1].data =
                                   NgLine(cmd.ref, IF push.message # <<>> THEN push.message
                                                   ELSE TxtRefUpdateFailed)

\* the store fails under the first command; the second deletes a branch
C8_Witness ==
    /\ push.phase = "done"
    /\ push.unpack.ok
    /\ Len(Sent) = 2
    /\ push.failAt = 1
    /\ RoundAccepted(1)
    /\ push.results[1].status = "ng"
    /\ push.results[2].status = "ok"
    /\ Sent[2].newOid = ZERO_OID
    /\ Sent[2].ref \in DOMAIN push.refsBefore
    /\ Sent[2].ref \notin DOMAIN refs

\* the accepted commands on names under refs/heads/, by position
OkHeads(units) ==
    {i \in 1..Len(Sent) : /\ units[i + 1].data = OkLine(Sent[i].ref)
                          /\ StartsWith(Sent[i].ref, TxtHeadsPrefix)}

\* refs/heads/main when it is among them, else the first of them
PreferredHead(okHeads) ==
    IF \E i \in okHeads : Sent[i].ref = RefMain THEN RefMain
    ELSE Sent[CHOOSE i \in okHeads : \A j \in okHeads : i <= j].ref

\* the part of C9 that does not depend on when HEAD is resolved
HeadRetargeting(okHeads, unresolved) ==
    /\ headFile # Head0 =>
          /\ push.unpack.ok
          /\ unresolved
          /\ okHeads # {}
          /\ headFile = <<PreferredHead(okHeads)>>
    /\ (push.unpack.ok /\ unresolved /\ okHeads # {} /\ ~push.headWriteFails)
       => headFile = <<PreferredHead(okHeads)>>

\* C9 as stated: HEAD is retargeted only if it does not resolve and a
\* refs/heads/ command succeeded, to refs/heads/main if among the successes,
\* else to the first of them; a HEAD that resolves when the request arrives
\* is never changed, and HEAD is never changed when unpack failed.
C9_ResolvingHeadNeverChanged ==
    push.phase = "done" =>
        /\ \A okHeads \in {OkHeads(ReportUnits)} :
              HeadRetargeting(okHeads, Head0[1] \notin DOMAIN refs)
        /\ Head0[1] \in DOMAIN push.refsBefore => headFile = Head0
        /\ ~push.unpack.ok => headFile = Head0

\* C9, with HEAD resolved where the code resolves it: after the commands of
\* the request were applied.  A HEAD that still resolves then is never
\* changed, and HEAD is never changed when unpack failed.
C9_HeadAfterCommands ==
    push.phase = "done" =>
        /\ \A okHeads \in {OkHeads(ReportUnits)} :
              HeadRetargeting(okHeads, Head0[1] \notin DOMAIN refs)
        /\ Head0[1] \in DOMAIN refs => headFile = Head0
        /\ ~push.unpack.ok => headFile = Head0

\* HEAD points at dev, which does not exist; a command on dev that leaves it
\* absent and the creation of main succeed in that order: HEAD goes to main
C9_Witness ==
    /\ push.phase = "done"
    /\ push.unpack.ok
    /\ Len(Sent) = 2
    /\ Sent[1].ref = RefDev
    /\ Sent[2].ref = RefMain
    /\ OkHeads(ReportUnits) = {1, 2}
    /\ Head0 = <<RefDev>>
    /\ RefDev \notin DOMAIN push.refsBefore
    /\ headFile = <<RefMain>>

\* the bytes of a well-formed request behind the flush of its commands
TailOfRequest ==
    Slice(push.request.bytes, Len(CommandSection(Sent)), Len(push.request.bytes))

\* C28: when the bytes behind the command flush do not begin with "PACK", or
\* there are none, nothing is persisted or indexed, unpack is reported ok and
\* the commands are applied: a push that only deletes refs succeeds.
C28_NoSignatureNoPack ==
    (push.phase = "done" /\ push.request.wellFormed) =>
        \A tail \in {TailOfRequest} :
            ~(Len(tail) >= 4 /\ SubSeq(tail, 1, 4) = TxtPACK) =>
                \A units \in {ReportUnits} :
                    /\ ~push.unpack.packWritten
                    /\ ~push.unpack.indexPackCalled
                    /\ units[1].data = TxtUnpackOk
                    /\ Len(push.rounds) = Len(Sent)
                    /\ \A i \in 1..Len(Sent) :
                          (RoundAccepted(i) /\ push.failAt # i) =>
                              /\ units[i + 1].data = OkLine(Sent[i].ref)
                              /\ Sent[i].newOid = ZERO_OID =>
                                    Sent[i].ref \notin DOMAIN push.rounds[i].after
                              /\ Sent[i].newOid # ZERO_OID =>
                                    OidOf(push.rounds[i].after, Sent[i].ref) = Sent[i].newOid

\* a push of one deletion, followed by bytes that are no pack, deleted a branch
C28_Witness ==
    /\ push.phase = "done"
    /\ push.request.wellFormed
    /\ Len(TailOfRequest) >= 4
    /\ ~push.hasPack
    /\ Len(Sent) = 1
    /\ Sent[1].newOid = ZERO_OID
    /\ push.results[1].status = "ok"
    /\ Sent[1].ref \in DOMAIN push.refsBefore
    /\ Sent[1].ref \notin DOMAIN refs

\* C29: a command whose ref name does not start with "refs/" is reported ng
\* and is never written or deleted: no command of a push creates, changes or
\* deletes a name outside refs/, HEAD in particular.
C29_OutsideRefsRefused ==
    /\ \A r \in DOMAIN refs : StartsWith(r, TxtRefsPrefix)
    /\ push.phase = "done" =>
          \A units \in {ReportUnits} :
              /\ \A i \in 1..Len(Sent) :
                    ~StartsWith(Sent[i].ref, TxtRefsPrefix) =>
                        /\ StartsWith(units[i + 1].data, TxtNg \o Sent[i].ref \o <<" ">>)
                        /\ push.results[i].status = "ng"
                        /\ push.unpack.ok =>
                              /\ units[i + 1].data = NgLine(Sent[i].ref, TxtInvalidRef)
                              /\ push.rounds[i].after = StoreBefore(i)
              /\ (\A i \in 1..Len(Sent) : ~StartsWith(Sent[i].ref, TxtRefsPrefix)) =>
                    /\ refs = push.refsBefore
                    /\ headFile = Head0

\* a command on HEAD that matches what HEAD resolves to was refused next to a
\* command that was accepted
C29_Witness ==
    /\ push.phase = "done"
    /\ push.unpack.ok
    /\ Len(Sent) = 2
    /\ Sent[1].ref = TxtHEAD
    /\ Sent[1].oldOid = resolveRefOrZero(push.refsBefore, Head0, TxtHEAD)
    /\ push.results[1].status = "ng"
    /\ push.results[2].status = "ok"

\* The name a ref line carries: what stands between the oid's blank and the
\* NUL or line feed behind it.
LineName(data) ==
    SubSeq(data, OidLen + 2, IndexFrom(data, {NUL, "\n"}, OidLen + 2) - 1)

LineOid(data) == SubSeq(data, 1, OidLen)

\* The branch and tag names of the model in name order, a peeled tag behind
\* its tag.
NameOrder == <<RefDev, RefMain, RefTag, RefTag \o TxtPeeled>>

PlaceInNameOrder(name) ==
    IF \E k \in 1..Len(NameOrder) : NameOrder[k] = name
    THEN CHOOSE k \in 1..Len(NameOrder) : NameOrder[k] = name
    ELSE 0

\* The capability list behind the NUL of the first ref line.
CapabilityText(branch) ==
    <<"r", "e", "p", "o", "r", "t", "-", "s", "t", "a", "t", "u", "s", " ", "d", "e", "l", "e", "t", "e", "-", "r", "e", "f", "s", " ", "o", "f", "s", "-", "d", "e", "l", "t", "a", " ", "s", "y", "m", "r", "e", "f", "=", "H", "E", "A", "D", ":">>
    \o branch \o <<" ", "a", "g", "e", "n", "t", "=", "c", "f", "-", "g", "i", "t", "/", "1", ".", "0">>

\* C30: the advertisement is the service header line, a flush, one pkt-line
\* per advertised ref, and a flush, and nothing else.  Every ref line is
\* "<oid> <name>" ended by a line feed; the first one, and only that one,
\* carries a NUL and behind it the capabilities report-status, delete-refs,
\* ofs-delta, symref=HEAD:<branch HEAD points at> and agent=cf-git/1.0.  The
\* lines of branch and tag refs follow in name order, each with the oid the
\* store holds for it (HEAD, when it resolves, and the peeled entry of an
\* annotated tag are the only other lines), and when the listing succeeds
\* every branch and tag of the store has exactly one line.  With no ref in the
\* store there is exactly one line: the all-zero oid, capabilities^{}, the NUL
\* and the capabilities; that line appears in no advertisement that names a ref.
C30_Advertisement ==
    push.phase = "advertised" =>
        \A parsed \in {parsePktLines(push.response, Len(push.response), 0)} :
        \A units \in {parsed.units} :
        \A n \in {Len(parsed.units)} :
        \A caps \in {CapabilityText(headFile[1])} :
            /\ ~parsed.thrown
            /\ n >= 4
            /\ units[n].nextOffset = Len(push.response)
            /\ units[1].type = "data"
            /\ units[1].data = TxtServiceHeader
            /\ units[2].type = "flush"
            /\ units[n].type = "flush"
            /\ \A i \in 3..(n - 1) :
                  /\ units[i].type = "data"
                  /\ Len(LineName(units[i].data)) > 0
                  /\ units[i].data =
                        LineOid(units[i].data) \o <<" ">> \o LineName(units[i].data)
                        \o (IF i = 3 THEN <<NUL>> \o caps ELSE <<>>) \o <<"\n">>
                  /\ \A k \in 1..Len(LineName(units[i].data)) :
                        LineName(units[i].data)[k] \notin {NUL, " ", "\n"}
                  /\ \/ /\ LineName(units[i].data) = TxtHEAD
                        /\ i = 3
                        /\ LineOid(units[i].data)
                              = OidOf(push.refsBefore, headFile[1])
                        /\ headFile[1] \in DOMAIN push.refsBefore
                     \/ /\ LineName(units[i].data) \in DOMAIN push.refsBefore
                        /\ \/ StartsWith(LineName(units[i].data), TxtHeadsPrefix)
                           \/ StartsWith(LineName(units[i].data), TxtTagsPrefix)
                        /\ LineOid(units[i].data)
                              = push.refsBefore[LineName(units[i].data)]
                     \/ /\ i > 3
                        /\ LineName(units[i].data)
                              = LineName(units[i - 1].data) \o TxtPeeled
                        /\ StartsWith(LineName(units[i - 1].data), TxtTagsPrefix)
                        /\ push.tagTarget = <<LineOid(units[i].data)>>
                     \/ /\ LineName(units[i].data) = TxtCapabilitiesRef
                        /\ LineOid(units[i].data) = ZERO_OID
                        /\ n = 4
                        /\ DOMAIN push.refsBefore = {} \/ push.listing # "ok"
            /\ \A i, j \in 3..(n - 1) :
                  (/\ i < j
                   /\ StartsWith(LineName(units[i].data), TxtRefsPrefix)) =>
                      /\ PlaceInNameOrder(LineName(units[i].data)) > 0
                      /\ PlaceInNameOrder(LineName(units[i].data))
                            < PlaceInNameOrder(LineName(units[j].data))
            /\ push.listing = "ok" =>
                  \A r \in DOMAIN push.refsBefore :
                      Cardinality({i \in 3..(n - 1) : LineName(units[i].data) = r}) = 1
            /\ DOMAIN push.refsBefore = {} =>
                  /\ n = 4
                  /\ units[3].data = ZERO_OID \o <<" ">> \o TxtCapabilitiesRef
                                     \o <<NUL>> \o caps \o <<"\n">>

\* An advertisement of five ref lines: HEAD, two branches, an annotated tag and
\* its peeled entry; HEAD points at a branch other than main.
C30_Witness ==
    /\ push.phase = "advertised"
    /\ push.listing = "ok"
    /\ push.tagTarget = <<OidB>>
    /\ DOMAIN push.refsBefore = {RefDev, RefMain, RefTag}
    /\ push.refsBefore[RefTag] = OidA
    /\ headFile = <<RefDev>>
    /\ Len(parsePktLines(push.response, Len(push.response), 0).units) = 8

\* C35: whenever a push leaves .git/HEAD with another content than it found,
\* the ref HEAD then points at exists in the store, so that HEAD resolves; no
\* branch the push deleted is made HEAD's target.
C35_HeadTargetResolves ==
    (push.phase = "done" /\ headFile # Head0) =>
        /\ headFile[1] \in DOMAIN refs
        /\ resolveRefOrZero(refs, headFile, TxtHEAD) # ZERO_OID

(***************************************************************************)
(* Two pushes in a row (RaceSpec).                                         *)
(***************************************************************************)
\* The state shows the second of two pushes answered, both with a command
\* for the same ref and the same oldOid and with different newOids; the first
\* was sent against the ref as it stood, and no pack or plumbing call failed.
SameRefRace ==
    /\ push.phase = "done"
    /\ push.previous # <<>>
    /\ \A first \in {push.previous[1]} :
          /\ first.request.commands[1].ref = Sent[1].ref
          /\ first.request.commands[1].oldOid = Sent[1].oldOid
          /\ first.request.commands[1].newOid # Sent[1].newOid
          /\ first.request.commands[1].oldOid
                = OidOf(first.refsBefore, Sent[1].ref)
          /\ first.unpack.ok /\ first.failAt = 0
          /\ push.unpack.ok /\ push.failAt = 0

\* What C33 promises of such a pair: the first is reported ok, the second
\* ng non-fast-forward, and the ref is at the first one's newOid.
FirstWins ==
    \A first \in {push.previous[1]} :
        /\ first.results[1].status = "ok"
        /\ push.results[1] = RefResult(Sent[1].ref, "ng", TxtNonFastForward)
        /\ ReportUnits[2].data = NgLine(Sent[1].ref, TxtNonFastForward)
        /\ OidOf(refs, Sent[1].ref) = first.request.commands[1].newOid
        /\ refs = first.rounds[1].after

C22_EncodeDecode ==
    pkt.op = "encode" =>
        /\ Len(pkt.input) + 4 <= MaxPktLen => ~pkt.thrown
        /\ ~pkt.thrown =>
              \A out \in {parsePktLines(pkt.bytes, Len(pkt.bytes), 0)} :
                  /\ ~out.thrown
                  /\ Len(out.units) = 1
                  /\ out.units[1].type = "data"
                  /\ out.units[1].data = pkt.input
                  /\ out.units[1].nextOffset = Len(pkt.input) + 4
                  /\ parsePktLines(encodePktLine(pkt.input).bytes,
                                   Len(pkt.bytes), 0) = out

\* the empty payload was framed
C22_Witness ==
    /\ pkt.op = "encode"
    /\ ~pkt.thrown
    /\ pkt.input = <<>>
    /\ Len(pkt.bytes) = 4

\* the digit a lowercase hexadecimal character stands for, 16 for any other
LowerHexValue(c) ==
    IF \E i \in 1..16 : HexDigits[i] = c
    THEN (CHOOSE i \in 1..16 : HexDigits[i] = c) - 1
    ELSE 16

\* C23: encode(payload) prefixes the payload with len(payload) + 4 written as
\* exactly four lowercase hexadecimal digits, and fails without output exactly
\* when len(payload) + 4 exceeds 0xFFFF: the longest payload has 65531 bytes.
C23_EncodePrefix ==
    pkt.op = "encode" =>
        /\ pkt.thrown <=> Len(pkt.input) > 65531
        /\ pkt.thrown => pkt.bytes = <<>>
        /\ ~pkt.thrown =>
              /\ Len(pkt.bytes) = Len(pkt.input) + 4
              /\ \A i \in 1..4 : LowerHexValue(pkt.bytes[i]) < 16
              /\ 4096 * LowerHexValue(pkt.bytes[1]) + 256 * LowerHexValue(pkt.bytes[2])
                    + 16 * LowerHexValue(pkt.bytes[3]) + LowerHexValue(pkt.bytes[4])
                 = Len(pkt.input) + 4
              /\ SubSeq(pkt.bytes, 5, Len(pkt.bytes)) = pkt.input

\* the longest payload was framed, with the prefix ffff
C23_Witness ==
    /\ pkt.op = "encode"
    /\ ~pkt.thrown
    /\ Len(pkt.input) = 65531
    /\ SubSeq(pkt.bytes, 1, 4) = <<"f", "f", "f", "f">>

\* the four bytes at offset p are hexadecimal digits
HexPrefixAt(p) == \A i \in 1..4 : IsHexDigit(pkt.input[p + i])

\* where the decoder stopped: behind the last unit it yielded
StoppedAt ==
    IF pkt.units = <<>> THEN pkt.offset ELSE pkt.units[Len(pkt.units)].nextOffset

\* C24: decode fails on every unit whose 4-byte length prefix is not made of
\* four hexadecimal digits: no unit is yielded for such a prefix, also when
\* only some of its characters are not hexadecimal.
C24_NonHexPrefixFails ==
    pkt.op = "decode" =>
        /\ \A i \in 1..Len(pkt.units) : HexPrefixAt(pkt.units[i].offset)
        /\ (StoppedAt + 4 <= Len(pkt.input) /\ ~HexPrefixAt(StoppedAt)) => pkt.thrown

\* the length a prefix of four hexadecimal digits at offset p declares
DeclaredAt(p) ==
    4096 * HexValue(pkt.input[p + 1]) + 256 * HexValue(pkt.input[p + 2])
        + 16 * HexValue(pkt.input[p + 3]) + HexValue(pkt.input[p + 4])

\* the decoder stopped in front of a complete prefix of four hexadecimal digits
StoppedAtPrefix == StoppedAt + 4 <= Len(pkt.input) /\ HexPrefixAt(StoppedAt)

\* C25 as stated: decode fails on a unit whose declared length is 1, 2 or 3;
\* none of these lengths yields a data, flush or delimiter unit.
C25_ShortLengthsFail ==
    pkt.op = "decode" =>
        /\ \A i \in 1..Len(pkt.units) :
              HexPrefixAt(pkt.units[i].offset) =>
                  DeclaredAt(pkt.units[i].offset) \notin 1..3
        /\ (StoppedAtPrefix /\ DeclaredAt(StoppedAt) \in 1..3) => pkt.thrown

\* C25 as the code has it: decode fails on a unit whose declared length is 2
\* or 3 and yields no unit for it; the declared length 1 always yields a
\* delimiter unit of four bytes, and decoding goes on behind it.
C25_TwoAndThreeFail ==
    pkt.op = "decode" =>
        /\ \A i \in 1..Len(pkt.units) :
              HexPrefixAt(pkt.units[i].offset) =>
                  /\ DeclaredAt(pkt.units[i].offset) \notin 2..3
                  /\ DeclaredAt(pkt.units[i].offset) = 1 =>
                        /\ pkt.units[i].type = "delimiter"
                        /\ pkt.units[i].nextOffset = pkt.units[i].offset + 4
        /\ \A i \in 1..Len(pkt.units) :
              (pkt.units[i].type = "delimiter" /\ HexPrefixAt(pkt.units[i].offset))
                  => DeclaredAt(pkt.units[i].offset) = 1
        /\ StoppedAtPrefix => DeclaredAt(StoppedAt) # 1
        /\ (StoppedAtPrefix /\ DeclaredAt(StoppedAt) \in 2..3) => pkt.thrown

\* a delimiter was yielded and the decoder then failed at a declared length 3
C25_Witness ==
    /\ pkt.op = "decode"
    /\ pkt.thrown
    /\ pkt.units # <<>>
    /\ pkt.units[Len(pkt.units)].type = "delimiter"
    /\ StoppedAtPrefix
    /\ DeclaredAt(StoppedAt) = 3

\* C26: decode fails when the declared length of a unit exceeds the bytes that
\* remain in the buffer from the unit's start; a data unit is never yielded
\* with a shortened payload, and the units in front of the truncated one are
\* yielded before the failure.
C26_TruncationFails ==
    pkt.op = "decode" =>
        /\ (/\ StoppedAtPrefix
            /\ DeclaredAt(StoppedAt) >= 4
            /\ StoppedAt + DeclaredAt(StoppedAt) > Len(pkt.input))
           => pkt.thrown
        /\ \A i \in 1..Len(pkt.units) :
              (pkt.units[i].type = "data" /\ HexPrefixAt(pkt.units[i].offset)) =>
                  \A start \in {pkt.units[i].offset} :
                  \A declared \in {DeclaredAt(pkt.units[i].offset)} :
                      /\ start + declared <= Len(pkt.input)
                      /\ pkt.units[i].data = SubSeq(pkt.input, start + 5, start + declared)
                      /\ pkt.units[i].nextOffset = start + declared
        /\ pkt.units = parsePktLines(Slice(pkt.input, 0, StoppedAt), StoppedAt,
                                      pkt.offset).units

\* a data unit was yielded and the decoder then failed at a unit that declares
\* more bytes than remain
C26_Witness ==
    /\ pkt.op = "decode"
    /\ pkt.thrown
    /\ pkt.units # <<>>
    /\ pkt.units[Len(pkt.units)].type = "data"
    /\ StoppedAtPrefix
    /\ DeclaredAt(StoppedAt) >= 4
    /\ StoppedAt + DeclaredAt(StoppedAt) > Len(pkt.input)

\* C27: readUntilFlush(buffer, offset) returns the payloads of the data units
\* in front of the first flush at or after offset, in stream order, and the
\* offset of the first byte behind that flush; it reads nothing behind the
\* flush, and it fails when the buffer ends before a flush is seen.
C27_ReadUntilFlush ==
    pkt.op = "readUntilFlush" =>
        \A units \in {parsePktLines(pkt.input, Len(pkt.input), pkt.offset).units} :
        \A flushes \in {{i \in 1..Len(units) : units[i].type = "flush"}} :
            /\ pkt.thrown <=> flushes = {}
            /\ ~pkt.thrown =>
                  \A f \in {i \in flushes : \A j \in flushes : i <= j} :
                  \A before \in {{i \in 1..(f - 1) : units[i].type = "data"}} :
                      /\ Len(pkt.lines) = Cardinality(before)
                      /\ \A i \in before :
                            pkt.lines[Cardinality({j \in before : j <= i})] = units[i].data
                      /\ pkt.next = units[f].nextOffset
                      /\ \A cut \in {readPktLinesUntilFlush(Slice(pkt.input, 0, pkt.next),
                                                            pkt.next, pkt.offset)} :
                            /\ ~cut.thrown
                            /\ cut.lines = pkt.lines
                            /\ cut.offset = pkt.next

\* two lines were read up to a flush
C27_Witness ==
    /\ pkt.op = "readUntilFlush"
    /\ ~pkt.thrown
    /\ Len(pkt.lines) = 2
    /\ pkt.lines[1] # pkt.lines[2]
    /\ pkt.next = Len(pkt.input)

(***************************************************************************)
(* The repository object (RepoSpec, RepoFairSpec)                          *)
(***************************************************************************)

\* C37: at most one clone ever starts and a fetch starts only from status
\* ready: a clone call takes effect only at status new, a gitFetch call only
\* at status ready, and of two calls that interleave at their awaits never
\* both are in the clone, or both in git.fetch.
C37_CloneFetchGuards ==
    [][/\ repo'.clones <= 1
       /\ \A t \in DOMAIN repo.tasks :
            /\ repo.tasks[t] = "idle" /\ repo'.tasks[t] = "cloneStatus"
                  => repo.status = "new" /\ repo'.status = "cloning"
            /\ repo.tasks[t] = "idle" /\ repo'.tasks[t] = "fetchGit"
                  => repo.status = "ready" /\ repo'.status = "fetching"
            /\ repo'.tasks[t] = "cloneGit" => repo'.status = "cloning"
            /\ repo'.tasks[t] = "fetchGit" => repo'.status = "fetching"
       /\ \A t, u \in DOMAIN repo.tasks :
            t # u => /\ ~(repo'.tasks[t] \in {"cloneStatus", "cloneGit"}
                           /\ repo'.tasks[u] \in {"cloneStatus", "cloneGit"})
                     /\ ~(repo'.tasks[t] = "fetchGit" /\ repo'.tasks[u] = "fetchGit")
      ]_vars

\* a fetch is in git.fetch, after the one clone
C37_Witness ==
    /\ repo.clones = 1
    /\ repo.tasks[2] = "fetchGit"
    /\ repo.status = "fetching"

\* C38: the status never stays cloning or fetching: whenever it is one of
\* them, it is ready or error later on, also when the git operation fails.
C38_NeverStuck ==
    (repo.status \in {"cloning", "fetching"}) ~> (repo.status \in {"ready", "error"})

\* C39: listFiles and getLastCommit answer for the commit HEAD resolves to at
\* the time of the call, not with a result memoized before HEAD moved.
C39_AnswersFollowHead ==
    \A i \in DOMAIN repo.answer :
       \E a \in {repo.answer[i]} :
          (~a.thrown /\ a.value # Absent)
             => a.value[1].commit = a.head

====
